---------------------------- MODULE Spec2Model ----------------------------
(***************************************************************************)
(* Model of the resilient request pipeline of mukoko-weather:              *)
(*   - the per-provider circuit breaker (api/py/_circuit_breaker.py)       *)
(*   - the weather fetch pipeline       (api/py/_weather.py)               *)
(* Time is the wall clock in seconds (time.time / datetime.now).           *)
(***************************************************************************)
EXTENDS Integers, Sequences, FiniteSets, TLC

\* ------------------------------------------------------------------------
\* Bounds of the model
\* ------------------------------------------------------------------------
TickStep == 150
MaxTime == 600
MaxFailures == 5
MaxTasks == 1
WxTickStep == 300
WxMaxTime == 900
MaxWReqs == 2
AiTickStep == 1800
AiMaxTime == 7200
MaxAiReqs == 2
RlTickStep == 1800
RlMaxTime == 5400
MaxRlCalls == 4
RpTickStep == 86400
RpMaxTime == 86400
MaxReports == 1
MaxSubmits == 2
MaxUpReqs == 3
ChTickStep == 300
ChMaxTime == 300
MaxTurns == 12
HaTickStep == 302400
HaMaxTime == 907200
MaxLines == 3
MaxTemp == 5
MaxConds == 2
MaxInsight == 2
MaxTail == 3
MaxIdCalls == 3
ExTickStep == 5
ExMaxTime == 30

None == -1

\* ------------------------------------------------------------------------
\* Circuit breaker: configuration and state (_circuit_breaker.py)
\* ------------------------------------------------------------------------
Providers == {"tomorrow-io", "open-meteo", "anthropic"}

PROVIDER_CONFIGS ==
    [p \in Providers |->
        CASE p = "tomorrow-io" ->
               [failure_threshold |-> 3, cooldown_s |-> 120, window_s |-> 300, timeout_s |-> 5]
          [] p = "open-meteo" ->
               [failure_threshold |-> 5, cooldown_s |-> 300, window_s |-> 300, timeout_s |-> 8]
          [] p = "anthropic" ->
               [failure_threshold |-> 3, cooldown_s |-> 300, window_s |-> 600, timeout_s |-> 15]]

_CircuitState == [state |-> "closed", failures |-> <<>>, last_opened_at |-> None]

Tasks == 1..MaxTasks

\* outcomes of awaiting asyncio.wait_for(fn(), timeout_s) inside execute
FnOutcomes == {"returned", "deadline", "raised", "raised_circuit_open",
               "raised_timeout", "raised_base"}

VARIABLES
    now,              \* wall clock, seconds
    circuit_states,   \* _circuit_states: provider -> _CircuitState
    tasks,            \* callers of CircuitBreaker.execute
    last_op,          \* the operation performed by the last step and what its caller observed
    wreq,             \* in-flight GET /api/py/weather requests
    weather_cache,    \* weather_cache collection, keyed by locationSlug
    weather_history,  \* weather_history collection (append-only)
    ai_summaries,     \* ai_summaries collection, keyed by locationSlug
    aireq,            \* in-flight POST /api/py/ai requests
    rate_limits,      \* rate_limits collection, keyed by "{action}:{ip}"
    rate_ids,         \* number of documents ever inserted into rate_limits (_id source)
    rlreq,            \* direct callers of check_rate_limit
    weather_reports,  \* weather_reports collection, keyed by _id
    report_ids,       \* number of documents ever inserted into weather_reports
    upreq,            \* POST /api/py/reports/upvote requests
    chreq,            \* POST /api/py/chat requests
    chat_input,       \* a chat request body and the messages list chat builds from it
    history_analysis, \* history_analysis collection (documents with a cacheKey)
    hareq,            \* POST /api/py/history/analyze requests
    clreq,            \* POST /api/py/reports/clarify requests
    cvreq,            \* a report's weather snapshot and its cross-validation
    advice,           \* a get_activity_advice tool call: arguments, rules cache and result
    device_profiles,  \* device_profiles collection (unique index on deviceId)
    dvreq,            \* POST /api/py/devices requests
    slugreq,          \* a name, its generated slug and the slug of that slug
    locations,        \* locations collection (community-created documents)
    lcreq,            \* POST /api/py/locations/add requests (coordinates mode)
    idlog,            \* rate-limited calls served: client, endpoint, headers, counter key
    executor,         \* _tool_executor: the calls its workers run and the calls queued
    exreq             \* chat requests at one executor call: position, kind, submit time

cbVars == <<circuit_states, tasks>>
wxVars == <<wreq, weather_cache, weather_history>>
aiVars == <<ai_summaries, aireq>>
\* everything outside the breaker and the weather pipeline
rlVars == <<rate_limits, rate_ids, rlreq>>
rpVars == <<weather_reports, report_ids, upreq>>
chVars == <<chreq>>
inVars == <<chat_input>>
haVars == <<history_analysis, hareq>>
\* the remaining endpoints
\* devices, locations and the remaining shared state
exVars == <<executor, exreq>>
lcVars == <<locations, lcreq, idlog, exVars>>
uVars == <<device_profiles, dvreq, slugreq, lcVars>>
zVars == <<clreq, cvreq, advice, uVars>>
yVars == <<inVars, haVars, zVars>>
xVars == <<aiVars, rlVars, rpVars, chVars, yVars>>
vars == <<now, circuit_states, tasks, last_op, wreq, weather_cache, weather_history, xVars>>

\* ------------------------------------------------------------------------
\* Pure helpers of the breaker
\* ------------------------------------------------------------------------
\* variant: the cooldown comparison is strict
_cooldown_elapsed_strict(s, cfg, t) ==
    IF s.last_opened_at = None THEN FALSE
    ELSE t - s.last_opened_at > cfg.cooldown_s

\* CircuitBreaker._cooldown_elapsed
_cooldown_elapsed(s, cfg, t) ==
    IF s.last_opened_at = None THEN FALSE
    ELSE t - s.last_opened_at >= cfg.cooldown_s

\* CircuitBreaker.state (property): promotes open -> half_open once the cooldown elapsed
state(s, cfg, t) ==
    IF s.state = "open" /\ _cooldown_elapsed(s, cfg, t)
    THEN [s EXCEPT !.state = "half_open"]
    ELSE s

\* variant: the gate never closes
is_allowed_always(s, cfg, t) == state(s, cfg, t).state \in {"closed", "half_open", "open"}

\* CircuitBreaker.is_allowed (property), evaluated on the state left by the probe
is_allowed(s, cfg, t) == state(s, cfg, t).state \in {"closed", "half_open"}

\* variant: nothing is pruned
Pruned_keep_all(fs, cfg, t) == fs

\* the pruning comprehension of record_failure
Pruned(fs, cfg, t) ==
    LET InWindow(x) == t - x < cfg.window_s
    IN  SelectSeq(fs, InWindow)

\* variant: a success in closed clears the recorded failures
record_success_clears(s) ==
    IF s.state = "half_open"
    THEN [state |-> "closed", failures |-> <<>>, last_opened_at |-> None]
    ELSE IF s.state = "closed" THEN [s EXCEPT !.failures = <<>>]
    ELSE s

\* CircuitBreaker.record_success
record_success(s) ==
    IF s.state = "half_open"
    THEN [state |-> "closed", failures |-> <<>>, last_opened_at |-> None]
    ELSE s

\* variant: a failed probe re-opens without restarting the cooldown
record_failure_stale_open(s, cfg, t) ==
    LET fs == Pruned(Append(s.failures, t), cfg, t)
    IN  IF s.state = "half_open"
        THEN [state |-> "open", failures |-> fs, last_opened_at |-> s.last_opened_at]
        ELSE IF s.state = "closed" /\ Len(fs) >= cfg.failure_threshold
        THEN [state |-> "open", failures |-> fs, last_opened_at |-> t]
        ELSE [s EXCEPT !.failures = fs]

\* CircuitBreaker.record_failure
record_failure(s, cfg, t) ==
    LET fs == Pruned(Append(s.failures, t), cfg, t)
    IN  IF s.state = "half_open"
        THEN [state |-> "open", failures |-> fs, last_opened_at |-> t]
        ELSE IF s.state = "closed" /\ Len(fs) >= cfg.failure_threshold
        THEN [state |-> "open", failures |-> fs, last_opened_at |-> t]
        ELSE [s EXCEPT !.failures = fs]

\* CircuitBreaker.reset
reset(s) == [state |-> "closed", failures |-> <<>>, last_opened_at |-> None]

\* the model exercises one provider's breaker per behaviour (breakers are independent)
Solo(p) == \A q \in Providers \ {p} : circuit_states[q] = _CircuitState

FitsBound(s, cfg, t) == Len(Pruned(Append(s.failures, t), cfg, t)) <= MaxFailures

NoOp == [op |-> "none", provider |-> "none", task |-> 0, fn |-> "none", result |-> "none",
         invoked |-> FALSE, recorded |-> "none"]

\* ------------------------------------------------------------------------
\* Initial state
\* ------------------------------------------------------------------------
InitCB ==
    /\ now = 0
    /\ circuit_states = [p \in Providers |-> _CircuitState]
    /\ tasks = [t \in Tasks |-> [pc |-> "idle", provider |-> "none"]]
    /\ last_op = NoOp

\* ------------------------------------------------------------------------
\* Clock
\* ------------------------------------------------------------------------
Tick(step, max) ==
    /\ now + step <= max
    /\ now' = now + step
    /\ last_op' = [NoOp EXCEPT !.op = "tick"]
    /\ UNCHANGED <<cbVars, wxVars, xVars>>

\* ------------------------------------------------------------------------
\* Breaker operations called directly
\* ------------------------------------------------------------------------
\* a caller reads breaker.is_allowed (through the state property)
ProbeIsAllowed(p) ==
    /\ Solo(p)
    /\ circuit_states' = [circuit_states EXCEPT ![p] = state(@, PROVIDER_CONFIGS[p], now)]
    /\ last_op' = [NoOp EXCEPT !.op = "is_allowed", !.provider = p,
                     !.result = IF is_allowed(circuit_states[p], PROVIDER_CONFIGS[p], now)
                                THEN "true" ELSE "false"]
    /\ UNCHANGED <<now, tasks, wxVars, xVars>>

RecordSuccess(p) ==
    /\ Solo(p)
    /\ circuit_states' = [circuit_states EXCEPT ![p] = record_success(@)]
    /\ last_op' = [NoOp EXCEPT !.op = "record_success", !.provider = p, !.recorded = "success"]
    /\ UNCHANGED <<now, tasks, wxVars, xVars>>

RecordFailure(p) ==
    /\ Solo(p)
    /\ FitsBound(circuit_states[p], PROVIDER_CONFIGS[p], now)
    /\ circuit_states' = [circuit_states EXCEPT ![p] = record_failure(@, PROVIDER_CONFIGS[p], now)]
    /\ last_op' = [NoOp EXCEPT !.op = "record_failure", !.provider = p, !.recorded = "failure"]
    /\ UNCHANGED <<now, tasks, wxVars, xVars>>

Reset(p) ==
    /\ Solo(p)
    /\ circuit_states[p] # _CircuitState
    /\ circuit_states' = [circuit_states EXCEPT ![p] = reset(@)]
    /\ last_op' = [NoOp EXCEPT !.op = "reset", !.provider = p]
    /\ UNCHANGED <<now, tasks, wxVars, xVars>>

\* ------------------------------------------------------------------------
\* CircuitBreaker.execute: the gate, then the awaited fn, then the recording
\* ------------------------------------------------------------------------
\* execute() up to the await: raises CircuitOpenError or starts fn
ExecuteStart(t, p) ==
    /\ Solo(p)
    /\ tasks[t].pc = "idle"
    /\ \A u \in Tasks : u < t => tasks[u].pc # "idle"    \* callers are interchangeable
    /\ circuit_states' = [circuit_states EXCEPT ![p] = state(@, PROVIDER_CONFIGS[p], now)]
    /\ IF is_allowed(circuit_states[p], PROVIDER_CONFIGS[p], now)
       THEN /\ tasks' = [tasks EXCEPT ![t] = [pc |-> "awaiting", provider |-> p]]
            /\ last_op' = [NoOp EXCEPT !.op = "execute_start", !.provider = p, !.task = t,
                             !.invoked = TRUE]
       ELSE /\ tasks' = tasks
            /\ last_op' = [NoOp EXCEPT !.op = "execute", !.provider = p, !.task = t,
                             !.result = "CircuitOpenError"]
    /\ UNCHANGED <<now, wxVars, xVars>>

\* variant: a deadline is not counted as a failure
ExecuteRecorded_drop_deadline(o) ==
    CASE o = "returned" -> "success"
      [] o \in {"raised_timeout", "raised"} -> "failure"
      [] OTHER -> "none"

\* what execute records and raises for each outcome of the awaited fn
ExecuteRecorded(o) ==
    CASE o = "returned" -> "success"
      [] o \in {"deadline", "raised_timeout", "raised"} -> "failure"
      [] OTHER -> "none"

\* "result": fn's value; "TimeoutError": the new TimeoutError execute raises;
\* "original": the exception fn raised, re-raised unchanged
ExecuteResult(o) ==
    CASE o = "returned" -> "result"
      [] o \in {"deadline", "raised_timeout"} -> "TimeoutError"
      [] OTHER -> "original"

\* variant: the recording is applied to a stale copy of the state (a lost update)
ExecuteFinish_lost_update(t, o) ==
    LET p == tasks[t].provider
        cfg == PROVIDER_CONFIGS[p]
        rec == ExecuteRecorded(o)
    IN  /\ tasks[t].pc = "awaiting"
        /\ rec = "failure" => FitsBound(circuit_states[p], cfg, now)
        /\ circuit_states' =
             [circuit_states EXCEPT ![p] =
                 CASE rec = "success" -> record_success(_CircuitState)
                   [] rec = "failure" -> record_failure(_CircuitState, cfg, now)
                   [] OTHER -> @]
        /\ tasks' = [tasks EXCEPT ![t] = [pc |-> "idle", provider |-> "none"]]
        /\ last_op' = [NoOp EXCEPT !.op = "execute", !.provider = p, !.task = t, !.fn = o,
                         !.result = ExecuteResult(o), !.invoked = TRUE, !.recorded = rec]
        /\ UNCHANGED <<now, wxVars, xVars>>

\* execute() after the await
ExecuteFinish(t, o) ==
    LET p == tasks[t].provider
        cfg == PROVIDER_CONFIGS[p]
        rec == ExecuteRecorded(o)
    IN  /\ tasks[t].pc = "awaiting"
        /\ rec = "failure" => FitsBound(circuit_states[p], cfg, now)
        /\ circuit_states' =
             [circuit_states EXCEPT ![p] =
                 CASE rec = "success" -> record_success(@)
                   [] rec = "failure" -> record_failure(@, cfg, now)
                   [] OTHER -> @]
        /\ tasks' = [tasks EXCEPT ![t] = [pc |-> "idle", provider |-> "none"]]
        /\ last_op' = [NoOp EXCEPT !.op = "execute", !.provider = p, !.task = t, !.fn = o,
                         !.result = ExecuteResult(o), !.invoked = TRUE, !.recorded = rec]
        /\ UNCHANGED <<now, wxVars, xVars>>

\* ------------------------------------------------------------------------
\* Weather pipeline (_weather.py)
\* ------------------------------------------------------------------------
WEATHER_CACHE_TTL == 900

WReqs == 1..MaxWReqs

\* cache keys: the slug of the nearest known location, or "{lat:.2f}_{lon:.2f}"
NearestSlug == "harare"
CoordSlug == "-17.83_31.05"
Slugs == {NearestSlug, CoordSlug}

NoData == [origin |-> "none", req |-> 0, hourly |-> 0, daily |-> 0]
NoEntry == [data |-> NoData, provider |-> "none", fetchedAt |-> None, expiresAt |-> None]
NoResp == [status |-> 0, x_cache |-> "none", provider |-> "none", body |-> NoData]

\* a data record carries the length of its hourly arrays and of its daily arrays
HOURLY_CAP == 24
DAILY_CAP == 7

\* Open-Meteo is asked for forecast_days = 7 and answers with one hourly entry per hour
FORECAST_DAYS == 7
HOURS_PER_DAY == 24

Min(a, b) == IF a < b THEN a ELSE b

\* lengths of the hourly and daily timelines in a Tomorrow.io answer
TomorrowShapes == {[hourly |-> 5, daily |-> 1], [hourly |-> 120, daily |-> 14]}

\* lengths of the hourly and daily arrays in an Open-Meteo answer
OpenMeteoShapes == {[hourly |-> FORECAST_DAYS * HOURS_PER_DAY, daily |-> FORECAST_DAYS]}

\* _normalize_tomorrow: hourly_raw[:24] and daily_raw[:7]
_normalize_tomorrow(r, raw) ==
    [origin |-> "tomorrow", req |-> r,
     hourly |-> Min(raw.hourly, HOURLY_CAP), daily |-> Min(raw.daily, DAILY_CAP)]

\* _fetch_open_meteo: the answer's hourly and daily objects are passed through
_fetch_open_meteo(r, raw) ==
    [origin |-> "open-meteo", req |-> r, hourly |-> raw.hourly, daily |-> raw.daily]

\* the breaker singleton that belongs to each weather provider
BreakerOf(source) == IF source = "tomorrow" THEN "tomorrow-io" ELSE "open-meteo"

\* label of a step of the weather pipeline or of the store
WxOp == [NoOp EXCEPT !.op = "weather"]

NewReq == [pc |-> "new", coords |-> "none", slug |-> "none", data |-> NoData,
           source |-> "none", steps |-> <<>>, resp |-> NoResp]

\* variant: the seasonal estimate yields nothing
_create_fallback_weather_empty == [origin |-> "none", req |-> 0, hourly |-> 0, daily |-> 0]

\* _create_fallback_weather: the seasonal estimate, built without I/O, with
\* range(24) hourly and range(7) daily entries
_create_fallback_weather ==
    [origin |-> "fallback", req |-> 0, hourly |-> HOURLY_CAP, daily |-> DAILY_CAP]

\* variant: Open-Meteo is tried whatever Tomorrow.io returned
AfterTomorrow_always_next(got) == "open_meteo"

\* get_weather after step 2: "if not data" decides whether Open-Meteo is tried
AfterTomorrow(got) == IF got THEN "set_cache" ELSE "open_meteo"

InitWx ==
    /\ wreq = [r \in WReqs |-> NewReq]
    /\ weather_cache = [s \in Slugs |-> NoEntry]
    /\ weather_history = {}

\* variant: the expiry filter is missing
_get_cached_weather_no_expiry(slug, t) == weather_cache[slug]

\* _get_cached_weather: find_one({locationSlug, expiresAt > now})
_get_cached_weather(slug, t) ==
    IF weather_cache[slug] # NoEntry /\ weather_cache[slug].expiresAt > t
    THEN weather_cache[slug]
    ELSE NoEntry

\* variant: the write only inserts; a slug's existing document is left as it is
update_one_upsert_insert_only(coll, slug, doc) ==
    IF coll[slug].expiresAt = None THEN [coll EXCEPT ![slug] = doc] ELSE coll

\* update_one({"locationSlug": slug}, {"$set": doc}, upsert=True) on a collection that
\* holds a slug's document under that slug: the document is replaced or created
update_one_upsert(coll, slug, doc) == [coll EXCEPT ![slug] = doc]

\* the document _set_cached_weather upserts
CacheDoc(data, provider, t) ==
    [data |-> data, provider |-> provider, fetchedAt |-> t,
     expiresAt |-> t + WEATHER_CACHE_TTL]

\* the final JSONResponse of get_weather; the handler's locals are discarded on return
Respond(q) == [pc |-> "done", coords |-> q.coords, slug |-> "none", data |-> NoData,
               source |-> "none", steps |-> q.steps,
               resp |-> [status |-> 200, x_cache |-> "MISS",
                         provider |-> q.source, body |-> q.data]]

\* get_weather: coordinate check and _find_nearest_location
\*   valid: lat in [-90,90] and lon in [-180,180]; nearest: "found" | "none" | "error"
WxResolve(r, valid, nearest) ==
    /\ wreq[r].pc = "new"
    /\ r > 1 => wreq[r - 1].pc # "new"    \* requests are interchangeable: start them in order
    /\ wreq' = [wreq EXCEPT ![r] =
          IF ~valid
          THEN [NewReq EXCEPT !.pc = "done", !.coords = "invalid",
                              !.resp = [NoResp EXCEPT !.status = 400]]
          ELSE [@ EXCEPT !.pc = "cache", !.coords = "valid",
                         !.slug = IF nearest = "found" THEN NearestSlug ELSE CoordSlug]]
    /\ last_op' = WxOp
    /\ UNCHANGED <<now, cbVars, weather_cache, weather_history, xVars>>

\* get_weather step 1: cache lookup; storeOk = FALSE is a store exception
WxCache(r, storeOk) ==
    LET cached == _get_cached_weather(wreq[r].slug, now)
        hit == storeOk /\ cached # NoEntry
    IN  /\ wreq[r].pc = "cache"
        /\ wreq' = [wreq EXCEPT ![r] =
              IF hit
              THEN [NewReq EXCEPT !.pc = "done", !.coords = "valid", !.steps = <<"cache">>,
                                  !.resp = [status |-> 200, x_cache |-> "HIT",
                                            provider |-> cached.provider,
                                            body |-> cached.data]]
              ELSE [@ EXCEPT !.pc = "tomorrow", !.steps = Append(@, "cache"),
                             !.source = "open-meteo"]]
        /\ last_op' = WxOp
        /\ UNCHANGED <<now, cbVars, weather_cache, weather_history, xVars>>

\* get_weather step 2: get_api_key("tomorrow") then _fetch_tomorrow
\*   key: "key" | "nokey" | "error";  out: "data" | "none" | "error"; raw: the answer
WxTomorrow(r, key, out, raw) ==
    LET fetched == key = "key"
        got == fetched /\ out = "data"
    IN  /\ wreq[r].pc = "tomorrow"
        /\ wreq' = [wreq EXCEPT ![r] =
              [@ EXCEPT !.pc = AfterTomorrow(got),
                        !.steps = IF fetched THEN Append(@, "tomorrow") ELSE @,
                        !.data = IF got THEN _normalize_tomorrow(r, raw) ELSE @,
                        !.source = IF got THEN "tomorrow" ELSE @]]
        /\ last_op' = WxOp
        /\ UNCHANGED <<now, cbVars, weather_cache, weather_history, xVars>>

\* variant: the seasonal estimate is stored like provider data
StoresResult_always(source) == TRUE

\* get_weather: "if source != 'fallback'" guards the cache upsert and the history append
StoresResult(source) == source # "fallback"

\* get_weather steps 3 and 4: _fetch_open_meteo, then _create_fallback_weather if still no data
WxOpenMeteo(r, out, raw) ==
    /\ wreq[r].pc = "open_meteo"
    /\ wreq' = [wreq EXCEPT ![r] =
          IF out = "data"
          THEN [@ EXCEPT !.pc = "set_cache", !.steps = Append(@, "open-meteo"),
                         !.data = _fetch_open_meteo(r, raw),
                         !.source = "open-meteo"]
          ELSE LET q == [@ EXCEPT !.steps = @ \o <<"open-meteo", "fallback">>,
                                  !.data = _create_fallback_weather,
                                  !.source = "fallback"]
               IN  IF StoresResult(q.source) THEN [q EXCEPT !.pc = "set_cache"]
                   ELSE Respond(q)]
    /\ last_op' = WxOp
    /\ UNCHANGED <<now, cbVars, weather_cache, weather_history, xVars>>

\* post-fetch side effect 1: _set_cached_weather; an exception skips the history write
WxSetCache(r, storeOk) ==
    /\ wreq[r].pc = "set_cache"
    /\ weather_cache' =
          IF storeOk
          THEN update_one_upsert(weather_cache, wreq[r].slug,
                                 CacheDoc(wreq[r].data, wreq[r].source, now))
          ELSE weather_cache
    /\ wreq' = [wreq EXCEPT ![r] =
          IF storeOk THEN [@ EXCEPT !.pc = "history"] ELSE Respond(@)]
    /\ last_op' = WxOp
    /\ UNCHANGED <<now, cbVars, weather_history, xVars>>

\* post-fetch side effect 2: _record_weather_history, then the response
WxRecordHistory(r, storeOk) ==
    /\ wreq[r].pc = "history"
    /\ weather_history' =
          IF storeOk
          THEN weather_history \cup
                  {[locationSlug |-> wreq[r].slug, recordedAt |-> now,
                    data |-> wreq[r].data]}
          ELSE weather_history
    /\ wreq' = [wreq EXCEPT ![r] = Respond(@)]
    /\ last_op' = WxOp
    /\ UNCHANGED <<now, cbVars, weather_cache, xVars>>

\* the store's TTL index removes an expired cache document (eventually)
TtlEvict(s) ==
    /\ weather_cache[s] # NoEntry
    /\ weather_cache[s].expiresAt <= now
    /\ weather_cache' = [weather_cache EXCEPT ![s] = NoEntry]
    /\ last_op' = WxOp
    /\ UNCHANGED <<now, cbVars, wreq, weather_history, xVars>>

\* ------------------------------------------------------------------------
\* AI summaries (_ai.py)
\* ------------------------------------------------------------------------
TIER_1_SLUGS == {"harare", "bulawayo", "mutare", "gweru", "masvingo",
                 "kwekwe", "kadoma", "marondera", "chinhoyi", "victoria-falls"}
TIER_2_TAGS == {"farming", "mining", "education", "border"}

TTL_TIER_1 == 1800
TTL_TIER_2 == 3600
TTL_TIER_3 == 7200

\* variant: the tags are looked at before the slug
_get_ttl_tags_first(slug, tags) ==
    IF tags \cap TIER_2_TAGS # {} THEN TTL_TIER_2
    ELSE IF slug \in TIER_1_SLUGS THEN TTL_TIER_1
    ELSE TTL_TIER_3

\* _get_ttl: tier 1 by slug, tier 2 by tag, tier 3 otherwise
_get_ttl(slug, tags) ==
    IF slug \in TIER_1_SLUGS THEN TTL_TIER_1
    ELSE IF tags \cap TIER_2_TAGS # {} THEN TTL_TIER_2
    ELSE TTL_TIER_3

AiReqs == 1..MaxAiReqs

\* location.name values of the requests, and location.name.lower().replace(" ", "-")
AiNames == {"Victoria Falls", "Chiredzi", "Kariba"}
location_slug(name) ==
    CASE name = "Victoria Falls" -> "victoria-falls"
      [] name = "Chiredzi" -> "chiredzi"
      [] name = "Kariba" -> "kariba"
AiSlugs == {location_slug(n) : n \in AiNames}

\* the tags field of the locations collection
LocationTags(slug) ==
    CASE slug = "victoria-falls" -> {"tourism", "border"}
      [] slug = "chiredzi" -> {"farming"}
      [] slug = "kariba" -> {"tourism"}

\* current.temperature_2m and current.weather_code of the request body
AiReadings == {[temperature |-> 20, weatherCode |-> 0],
               [temperature |-> 25, weatherCode |-> 0],
               [temperature |-> 26, weatherCode |-> 0],
               [temperature |-> 20, weatherCode |-> 61]}

NoInsight == [kind |-> "none", req |-> 0]
NoSummary == [insight |-> NoInsight, generatedAt |-> None, expiresAt |-> None,
              temperature |-> 0, weatherCode |-> 0]
NoAiResp == [status |-> 0, cached |-> FALSE, insight |-> NoInsight]
NewAiReq == [pc |-> "new", slug |-> "none", tags |-> {}, temperature |-> 0,
             weatherCode |-> 0, insight |-> NoInsight, resp |-> NoAiResp]

\* label of a step of the summary endpoint that touches no breaker
AiOp == [NoOp EXCEPT !.op = "ai"]

InitAi ==
    /\ ai_summaries = [s \in AiSlugs |-> NoSummary]
    /\ aireq = [r \in AiReqs |-> NewAiReq]

\* _get_cached_summary: find_one({locationSlug, expiresAt > now})
_get_cached_summary(slug, t) ==
    IF ai_summaries[slug] # NoSummary /\ ai_summaries[slug].expiresAt > t
    THEN ai_summaries[slug]
    ELSE NoSummary

Abs(x) == IF x < 0 THEN -x ELSE x

\* variant: a move of exactly 5 degrees already counts as stale
_is_stale_at_5(cached, current_temp, current_code) ==
    \/ Abs(current_temp - cached.temperature) >= 5
    \/ current_code # cached.weatherCode

\* _is_stale: the temperature moved by more than 5 degrees or the weather code changed
_is_stale(cached, current_temp, current_code) ==
    \/ Abs(current_temp - cached.temperature) > 5
    \/ current_code # cached.weatherCode

\* the fields _set_cached_summary sets on the slug's document
SummaryDoc(slug, insight, temp, code, tags, t) ==
    [insight |-> insight, generatedAt |-> t, expiresAt |-> t + _get_ttl(slug, tags),
     temperature |-> temp, weatherCode |-> code]

\* the handler returns (or raises): its locals are discarded
AiRespond(status, cached, insight) ==
    [NewAiReq EXCEPT !.pc = "done",
                     !.resp = [status |-> status, cached |-> cached, insight |-> insight]]

\* the model follows one location's summary per behaviour (documents are independent)
AiSolo(slug) ==
    /\ \A s \in AiSlugs \ {slug} : ai_summaries[s] = NoSummary
    /\ \A r \in AiReqs : aireq[r].slug \in {"none", slug}

\* generate_summary up to the cache check: validation, slug, tags lookup (a store error
\* yields no tags), _get_cached_summary (a store error propagates) and _is_stale
AiStart(r, valid, name, cur, tagsOk, storeOk) ==
    LET slug == location_slug(name)
        tags == IF tagsOk THEN LocationTags(slug) ELSE {}
        cached == _get_cached_summary(slug, now)
    IN  /\ aireq[r].pc = "new"
        /\ r > 1 => aireq[r - 1].pc # "new"    \* requests are interchangeable
        /\ AiSolo(slug)
        /\ aireq' = [aireq EXCEPT ![r] =
              IF ~valid THEN AiRespond(400, FALSE, NoInsight)
              ELSE IF ~storeOk THEN AiRespond(500, FALSE, NoInsight)
              ELSE IF cached # NoSummary /\ ~_is_stale(cached, cur.temperature, cur.weatherCode)
              THEN [AiRespond(200, TRUE, cached.insight) EXCEPT       \* the request served
                       !.slug = slug, !.temperature = cur.temperature,
                       !.weatherCode = cur.weatherCode]
              ELSE [NewAiReq EXCEPT !.pc = "generate", !.slug = slug, !.tags = tags,
                                    !.temperature = cur.temperature,
                                    !.weatherCode = cur.weatherCode]]
        /\ last_op' = AiOp
        /\ UNCHANGED <<now, cbVars, wxVars, ai_summaries, rlVars, rpVars, chVars, yVars>>

\* generate_summary: _get_client, anthropic_breaker.is_allowed and the LLM call
\*   client: an API key is configured;  out: "text" | "no_text" | "error"
AiGenerate(r, client, out) ==
    LET cfg == PROVIDER_CONFIGS["anthropic"]
        s == circuit_states["anthropic"]
        allowed == is_allowed(s, cfg, now)
        called == client /\ allowed
        failed == called /\ out = "error"
    IN  /\ aireq[r].pc = "generate"
        /\ failed => FitsBound(state(s, cfg, now), cfg, now)
        /\ circuit_states' = [circuit_states EXCEPT !["anthropic"] =
              IF ~client THEN @
              ELSE IF ~allowed THEN state(@, cfg, now)
              ELSE IF failed THEN record_failure(state(@, cfg, now), cfg, now)
              ELSE record_success(state(@, cfg, now))]
        /\ aireq' = [aireq EXCEPT ![r] =
              [@ EXCEPT !.pc = "store",
                        !.insight = [kind |-> IF ~called \/ failed THEN "template"
                                              ELSE IF out = "text" THEN "llm"
                                              ELSE "no_insight",
                                     req |-> r]]]
        /\ last_op' = [NoOp EXCEPT !.op = "ai_generate", !.provider = "anthropic",
                         !.invoked = called,
                         !.recorded = IF ~called THEN "none"
                                      ELSE IF failed THEN "failure" ELSE "success"]
        /\ UNCHANGED <<now, tasks, wxVars, ai_summaries, rlVars, rpVars, chVars, yVars>>

\* generate_summary: _set_cached_summary (a store error propagates) and the response
AiStore(r, storeOk) ==
    LET q == aireq[r] IN
    /\ q.pc = "store"
    /\ ai_summaries' =
          IF storeOk
          THEN update_one_upsert(ai_summaries, q.slug,
                   SummaryDoc(q.slug, q.insight, q.temperature, q.weatherCode, q.tags, now))
          ELSE ai_summaries
    /\ aireq' = [aireq EXCEPT ![r] =
          IF storeOk THEN AiRespond(200, FALSE, q.insight)
          ELSE AiRespond(500, FALSE, NoInsight)]
    /\ last_op' = AiOp
    /\ UNCHANGED <<now, cbVars, wxVars, rlVars, rpVars, chVars, yVars>>

\* the store's TTL index removes an expired summary (eventually)
AiTtlEvict(s) ==
    /\ ai_summaries[s] # NoSummary
    /\ ai_summaries[s].expiresAt <= now
    /\ ai_summaries' = [ai_summaries EXCEPT ![s] = NoSummary]
    /\ last_op' = AiOp
    /\ UNCHANGED <<now, cbVars, wxVars, aireq, rlVars, rpVars, chVars, yVars>>

\* ------------------------------------------------------------------------
\* Rate limiter (_db.py)
\* ------------------------------------------------------------------------
RlIps == {"1.2.3.4", "5.6.7.8"}
RlActions == {"chat", "weather_report", "history_analyze", "report_clarify",
              "location-create", "followup", "explore_search"}
\* the peer address of the reverse proxy in front of the service
ProxyPeer == "10.0.0.1"

\* key = f"{action}:{ip}": the action names hold no colon, so the pair is recoverable
RateKey(action, ip) == <<action, ip>>
RateKeys == {RateKey(a, i) : a \in RlActions, i \in RlIps \cup {ProxyPeer}}

NoRate == [id |-> 0, count |-> 0, expiresAt |-> None]

\* find_one_and_update({key}, {$inc: count, $setOnInsert: expiresAt}, upsert=True,
\* return_document=True): the document after the update
RateAfter(doc, id, expires) ==
    IF doc = NoRate THEN [id |-> id, count |-> 1, expiresAt |-> expires]
    ELSE [doc EXCEPT !.count = @ + 1]

\* variant: the call that reaches max is denied
RateAllowed_strict(count, max) == count < max

\* allowed = count <= max_requests
RateAllowed(count, max) == count <= max

Max(a, b) == IF a > b THEN a ELSE b

\* the dict check_rate_limit returns, with the document it was computed from
RateResult(post, max) ==
    [id |-> post.id, count |-> post.count, expiresAt |-> post.expiresAt,
     allowed |-> RateAllowed(post.count, max), remaining |-> Max(0, max - post.count)]

NoRateResult == [id |-> 0, count |-> 0, expiresAt |-> None, allowed |-> FALSE, remaining |-> 0]

\* the arguments of the direct calls: max_requests and window_seconds
RateMax == 2
RateWindow == 3600

RlCalls == 1..MaxRlCalls
RlCallAction == "chat"

NewRl == [pc |-> "new", key |-> <<>>, expires |-> None, res |-> NoRateResult]

RlOp == [NoOp EXCEPT !.op = "check_rate_limit"]

InitRl ==
    /\ rate_limits = [k \in RateKeys |-> NoRate]
    /\ rate_ids = 0
    /\ rlreq = [c \in RlCalls |-> NewRl]

\* check_rate_limit up to the store call: key, now and expires are computed
RlBegin(c, ip) ==
    /\ rlreq[c].pc = "new"
    /\ c > 1 => rlreq[c - 1].pc # "new"    \* callers are interchangeable
    /\ rlreq' = [rlreq EXCEPT ![c] =
          [@ EXCEPT !.pc = "update", !.key = RateKey(RlCallAction, ip),
                    !.expires = now + RateWindow]]
    /\ last_op' = RlOp
    /\ UNCHANGED <<now, cbVars, wxVars, aiVars, rate_limits, rate_ids, rpVars, chVars, yVars>>

\* check_rate_limit: the atomic find_one_and_update and the returned dict;
\* storeOk = FALSE is a store exception, which propagates to the caller
RlUpdate(c, storeOk) ==
    LET k == rlreq[c].key
        post == RateAfter(rate_limits[k], rate_ids + 1, rlreq[c].expires)
    IN  /\ rlreq[c].pc = "update"
        /\ rate_limits' = IF storeOk THEN [rate_limits EXCEPT ![k] = post] ELSE rate_limits
        /\ rate_ids' = IF storeOk /\ rate_limits[k] = NoRate THEN rate_ids + 1 ELSE rate_ids
        /\ rlreq' = [rlreq EXCEPT ![c] =
              IF storeOk
              THEN [@ EXCEPT !.pc = "done", !.expires = None, !.res = RateResult(post, RateMax)]
              ELSE [@ EXCEPT !.pc = "error", !.expires = None]]
        /\ last_op' = RlOp
        /\ UNCHANGED <<now, cbVars, wxVars, aiVars, rpVars, chVars, yVars>>

\* the store's TTL index removes an expired counter (eventually)
RlTtlEvict(k) ==
    /\ rate_limits[k] # NoRate
    /\ rate_limits[k].expiresAt <= now
    /\ rate_limits' = [rate_limits EXCEPT ![k] = NoRate]
    /\ last_op' = RlOp
    /\ UNCHANGED <<now, cbVars, wxVars, aiVars, rate_ids, rlreq, rpVars, chVars, yVars>>

\* ------------------------------------------------------------------------
\* Community reports (_reports.py)
\* ------------------------------------------------------------------------
SUBMIT_RATE_LIMIT == 5
SUBMIT_RATE_WINDOW == 3600

SEVERITY_LEVELS == {"mild", "moderate", "severe"}
SEVERITY_TTL(severity) ==
    CASE severity = "mild" -> 86400
      [] severity = "moderate" -> 172800
      [] severity = "severe" -> 259200

\* _hash_ip: the first 16 hex digits of the SHA-256 of the address
_hash_ip(ip) == <<"sha256", ip>>

ReportIds == 1..MaxReports
UpReqs == 1..MaxUpReqs

\* an id that parses as an ObjectId but names no report is any id above report_ids;
\* 0 stands for a string that does not parse
InvalidId == 0

NoReport == [severity |-> "none", reportedBy |-> <<>>, reportedAt |-> None,
             expiresAt |-> None, upvotes |-> 0, upvotedBy |-> <<>>, verified |-> FALSE]

NewUp == [pc |-> "new", report |-> InvalidId, identity |-> <<>>, status |-> 0,
          upvoted |-> FALSE]

\* label of a step of the report endpoints or of their store
RpOp == [NoOp EXCEPT !.op = "reports"]

InitRp ==
    /\ weather_reports = [i \in ReportIds |-> NoReport]
    /\ report_ids = 0
    /\ upreq = [r \in UpReqs |-> NewUp]

\* submit_report reads the cache row of the location without an expiry filter; with no
\* row the snapshot is empty and _cross_validate answers False
Verified(slug, agrees) == weather_cache[slug] # NoEntry /\ agrees

\* submit_report, the whole handler
\*   ip: the client address or "none"; rlOk, insOk: the store calls succeed;
\*   severity: the body's severity; loc: "found" | "none"; agrees: the snapshot
\*   matches the report type
SubmitReport(ip, rlOk, typeValid, severity, loc, agrees, insOk) ==
    LET k == RateKey("weather_report", ip)
        post == RateAfter(rate_limits[k], rate_ids + 1, now + SUBMIT_RATE_WINDOW)
        rate == RateResult(post, SUBMIT_RATE_LIMIT)
        sev == IF severity \in SEVERITY_LEVELS THEN severity ELSE "moderate"
        counted == ip # "none" /\ rlOk
        inserts == counted /\ rate.allowed /\ typeValid /\ loc = "found" /\ insOk
        doc == [severity |-> sev, reportedBy |-> _hash_ip(ip), reportedAt |-> now,
                expiresAt |-> now + SEVERITY_TTL(sev), upvotes |-> 0, upvotedBy |-> <<>>,
                verified |-> Verified(NearestSlug, agrees)]
    IN  /\ inserts => report_ids < MaxReports
        /\ counted => post.count <= MaxSubmits
        /\ rate_limits' = IF counted THEN [rate_limits EXCEPT ![k] = post] ELSE rate_limits
        /\ rate_ids' = IF counted /\ rate_limits[k] = NoRate THEN rate_ids + 1 ELSE rate_ids
        /\ weather_reports' =
              IF inserts THEN [weather_reports EXCEPT ![report_ids + 1] = doc]
              ELSE weather_reports
        /\ report_ids' = IF inserts THEN report_ids + 1 ELSE report_ids
        /\ last_op' = RpOp
        /\ UNCHANGED <<now, cbVars, wxVars, aiVars, rlreq, upreq, chVars, yVars>>

\* variant: the filter does not look at upvotedBy
UpvoteFilter_any(doc, h) == doc # NoReport

\* the filter of upvote_report's update_one: {_id: oid, upvotedBy: {$ne: ip_hash}}
UpvoteFilter(doc, h) == doc # NoReport /\ h \notin {doc.upvotedBy[i] : i \in 1..Len(doc.upvotedBy)}

\* variant: the update is {$inc: upvotes, $addToSet: upvotedBy} on any existing report
Upvote_add_to_set(r, ip, rid, storeOk) ==
    LET h == _hash_ip(ip)
        valid == ip # "none" /\ rid # InvalidId
        matched == valid /\ storeOk /\ weather_reports[rid] # NoReport
    IN  /\ upreq[r].pc = "new"
        /\ r > 1 => upreq[r - 1].pc # "new"
        /\ weather_reports' =
              IF matched
              THEN [weather_reports EXCEPT ![rid] =
                       [@ EXCEPT !.upvotes = @ + 1,
                                 !.upvotedBy = IF UpvoteFilter(weather_reports[rid], h)
                                               THEN Append(@, h) ELSE @]]
              ELSE weather_reports
        /\ upreq' = [upreq EXCEPT ![r] =
              IF ~valid THEN [NewUp EXCEPT !.pc = "done", !.status = 400]
              ELSE IF ~storeOk THEN [NewUp EXCEPT !.pc = "done", !.status = 500]
              ELSE [pc |-> "done", report |-> rid, identity |-> h, status |-> 200,
                    upvoted |-> matched]]
        /\ last_op' = RpOp
        /\ UNCHANGED <<now, cbVars, wxVars, aiVars, rlVars, report_ids, chVars, yVars>>

\* upvote_report, the whole handler: one atomic update_one, then the answer from
\* modified_count;  rid: InvalidId or a parseable id;  storeOk = FALSE: store exception
Upvote(r, ip, rid, storeOk) ==
    LET h == _hash_ip(ip)
        valid == ip # "none" /\ rid # InvalidId
        matched == valid /\ storeOk /\ UpvoteFilter(weather_reports[rid], h)
    IN  /\ upreq[r].pc = "new"
        /\ r > 1 => upreq[r - 1].pc # "new"    \* requests are interchangeable
        /\ weather_reports' =
              IF matched
              THEN [weather_reports EXCEPT ![rid] =
                       [@ EXCEPT !.upvotes = @ + 1, !.upvotedBy = Append(@, h)]]
              ELSE weather_reports
        /\ upreq' = [upreq EXCEPT ![r] =
              IF ~valid THEN [NewUp EXCEPT !.pc = "done", !.status = 400]
              ELSE IF ~storeOk THEN [NewUp EXCEPT !.pc = "done", !.status = 500]
              ELSE [pc |-> "done", report |-> rid, identity |-> h, status |-> 200,
                    upvoted |-> matched]]
        /\ last_op' = RpOp
        /\ UNCHANGED <<now, cbVars, wxVars, aiVars, rlVars, report_ids, chVars, yVars>>

\* the store's TTL index removes an expired report (eventually)
ReportTtlEvict(i) ==
    /\ weather_reports[i] # NoReport
    /\ weather_reports[i].expiresAt <= now
    /\ weather_reports' = [weather_reports EXCEPT ![i] = NoReport]
    /\ last_op' = RpOp
    /\ UNCHANGED <<now, cbVars, wxVars, aiVars, rlVars, report_ids, upreq, chVars, yVars>>

\* ------------------------------------------------------------------------
\* Chat tool loop (_chat.py)
\* ------------------------------------------------------------------------
MAX_TOOL_ITERATIONS == 5
MAX_REFERENCES == 5
RATE_LIMIT_MAX == 20
RATE_LIMIT_WINDOW == 3600

\* the model follows one chat request; its breaker is shared with the other endpoints
ChatReqs == {1}
ChatIp == "1.2.3.4"

ChatSlugs == {"harare", "bulawayo", "mutare", "gweru", "masvingo", "kwekwe"}

\* tool_use blocks of an LLM response: the tool's name and its location_slug input
ToolBlock(name, slug) == [name |-> name, slug |-> slug]
ToolPlans ==
    {<<ToolBlock("get_weather", "harare")>>,
     <<ToolBlock("search_locations", "none"), ToolBlock("get_weather", "harare")>>,
     <<ToolBlock("get_activity_advice", "harare"), ToolBlock("list_locations_by_tag", "none")>>}

\* the slugs in the "locations" list of a search or tag-listing result
SearchResults ==
    {<<>>, <<"harare">>,
     <<"bulawayo", "mutare", "gweru", "masvingo", "kwekwe", "harare">>}

NoChatResp == [status |-> 0, kind |-> "none", error |-> FALSE, references |-> <<>>]
\* located: the slugs that the search_locations and list_locations_by_tag results of
\* this request have listed so far (a history of the tool results, kept for the
\* properties of the references)
NewChat == [pc |-> "new", iter |-> 0, blocks |-> <<>>, tool_results |-> <<>>,
            references |-> <<>>, seen_slugs |-> {}, messages |-> <<>>, located |-> {},
            resp |-> NoChatResp]

InitCh == chreq = [c \in ChatReqs |-> NewChat]

Take(q, n) == IF Len(q) <= n THEN q ELSE SubSeq(q, 1, n)

\* position of slug among the keys of an insertion-ordered dict given as a sequence
KeyIndex(q, slug) == CHOOSE i \in 1..Len(q) : q[i].slug = slug

HasKey(q, slug) == \E i \in 1..Len(q) : q[i].slug = slug

RECURSIVE unique_refs(_, _)
\* the dedup loop before the final answer: a slug's entry is replaced only by an entry
\* of type "location"; values() keeps the order in which the slugs were first inserted
unique_refs(refs, acc) ==
    IF refs = <<>> THEN acc
    ELSE LET ref == Head(refs) IN
         unique_refs(Tail(refs),
            IF ~HasKey(acc, ref.slug) THEN Append(acc, ref)
            ELSE IF ref.type = "location"
                 THEN [acc EXCEPT ![KeyIndex(acc, ref.slug)] = ref]
                 ELSE acc)

RECURSIVE last_refs(_, _)
\* {r.slug: r for r in references}.values(): the last entry of a slug wins
last_refs(refs, acc) ==
    IF refs = <<>> THEN acc
    ELSE LET ref == Head(refs) IN
         last_refs(Tail(refs),
            IF ~HasKey(acc, ref.slug) THEN Append(acc, ref)
            ELSE [acc EXCEPT ![KeyIndex(acc, ref.slug)] = ref])

\* the handler returns or raises: the loop's locals are discarded
ChatRespond(q, status, kind, error, refs) ==
    [NewChat EXCEPT !.pc = "done", !.iter = q.iter, !.located = q.located,
                    !.resp = [status |-> status, kind |-> kind, error |-> error,
                              references |-> refs]]

\* variant: an LLM failure is passed on as a bad-gateway error
SoftError_bad_gateway(q, kind) == ChatRespond(q, 502, kind, FALSE, <<>>)

\* return ChatResponse(response=<apology text>, error=True): HTTP 200, no references
SoftError(q, kind) == ChatRespond(q, 200, kind, TRUE, <<>>)

RECURSIVE AddLocations(_, _, _)
\* reference extraction for search_locations and list_locations_by_tag
AddLocations(q, found, i) ==
    IF i > Len(found) THEN q
    ELSE AddLocations(
            IF found[i] \notin q.seen_slugs
            THEN [q EXCEPT !.seen_slugs = @ \cup {found[i]},
                           !.references = Append(@, [slug |-> found[i], type |-> "location"])]
            ELSE q,
            found, i + 1)

\* reference extraction after a tool call; found: the locations of the parsed result
ExtractReferences(q, block, found) ==
    IF block.name \in {"search_locations", "list_locations_by_tag"}
    THEN AddLocations([q EXCEPT !.located = @ \cup {found[i] : i \in 1..Len(found)}],
                      found, 1)
    ELSE IF block.name = "get_weather" /\ block.slug \notin q.seen_slugs
    THEN [q EXCEPT !.seen_slugs = @ \cup {block.slug},
                   !.references = Append(@, [slug |-> block.slug, type |-> "weather"])]
    ELSE q

\* variant: the loop never runs out of iterations
LoopExhausted_never(iter) == FALSE

\* "for _ in range(MAX_TOOL_ITERATIONS)" has no iteration left
LoopExhausted(iter) == iter >= MAX_TOOL_ITERATIONS

\* variant: a tool call that hits its deadline leaves no tool result
AppendResult_drop_deadline(results, id, out) ==
    IF out = "deadline" THEN results
    ELSE Append(results, [tool_use_id |-> id, content |-> "value"])

\* tool_results.append: the tool's JSON string, or the JSON error object of a deadline
AppendResult(results, id, out) ==
    Append(results, [tool_use_id |-> id,
                     content |-> IF out = "deadline" THEN "timed_out" ELSE "value"])

\* chat up to the tool loop: message checks, client address, check_rate_limit and
\* _get_anthropic_client;  msg: "ok" | "empty" | "long";  key: an API key is configured
ChatStart(c, msg, ip, rlOk, key) ==
    LET k == RateKey("chat", ip)
        post == RateAfter(rate_limits[k], rate_ids + 1, now + RATE_LIMIT_WINDOW)
        rate == RateResult(post, RATE_LIMIT_MAX)
        counted == msg = "ok" /\ ip # "none" /\ rlOk
        q == chreq[c]
    IN  /\ q.pc = "new"
        /\ rate_limits' = IF counted THEN [rate_limits EXCEPT ![k] = post] ELSE rate_limits
        /\ rate_ids' = IF counted /\ rate_limits[k] = NoRate THEN rate_ids + 1 ELSE rate_ids
        /\ chreq' = [chreq EXCEPT ![c] =
              CASE msg # "ok" \/ ip = "none" -> ChatRespond(q, 400, "bad_request", FALSE, <<>>)
                [] ~rlOk -> ChatRespond(q, 500, "raised", FALSE, <<>>)
                [] ~rate.allowed -> ChatRespond(q, 429, "rate_limit_exceeded", FALSE, <<>>)
                [] ~key -> ChatRespond(q, 503, "ai_unavailable", FALSE, <<>>)
                [] OTHER -> [q EXCEPT !.pc = "llm"]]
        /\ last_op' = [NoOp EXCEPT !.op = "chat_start"]
        /\ UNCHANGED <<now, cbVars, wxVars, aiVars, rlreq, rpVars, yVars>>

\* top of a loop iteration: the breaker gate, then the LLM call is submitted with the
\* messages list as it stands
ChatLlmStart(c) ==
    LET cfg == PROVIDER_CONFIGS["anthropic"]
        q == chreq[c]
        allowed == is_allowed(circuit_states["anthropic"], cfg, now)
    IN  /\ q.pc = "llm"
        /\ circuit_states' = [circuit_states EXCEPT !["anthropic"] = state(@, cfg, now)]
        /\ chreq' = [chreq EXCEPT ![c] =
              IF allowed THEN [q EXCEPT !.pc = "awaiting_llm", !.iter = @ + 1]
              ELSE SoftError(q, "unavailable")]
        /\ last_op' = [NoOp EXCEPT !.op = "chat_llm_start", !.provider = "anthropic",
                         !.invoked = allowed]
        /\ UNCHANGED <<now, tasks, wxVars, aiVars, rlVars, rpVars, yVars>>

\* the awaited LLM call completes;  out: "tool_use" | "end" | "deadline" |
\* "rate_limit" | "api_error" | "raised" (any other exception);  plan: its tool_use blocks
ChatLlmFinish(c, out, plan) ==
    LET cfg == PROVIDER_CONFIGS["anthropic"]
        q == chreq[c]
        rec == CASE out \in {"tool_use", "end"} -> "success"
                 [] out \in {"deadline", "rate_limit", "api_error"} -> "failure"
                 [] OTHER -> "none"
    IN  /\ q.pc = "awaiting_llm"
        /\ rec = "failure" => FitsBound(circuit_states["anthropic"], cfg, now)
        /\ circuit_states' = [circuit_states EXCEPT !["anthropic"] =
              CASE rec = "success" -> record_success(@)
                [] rec = "failure" -> record_failure(@, cfg, now)
                [] OTHER -> @]
        /\ chreq' = [chreq EXCEPT ![c] =
              CASE out = "tool_use" ->
                     [q EXCEPT !.pc = "tools", !.blocks = plan, !.tool_results = <<>>]
                [] out = "end" ->
                     ChatRespond(q, 200, "final", FALSE,
                                 Take(unique_refs(q.references, <<>>), MAX_REFERENCES))
                [] out = "deadline" -> SoftError(q, "too_slow")
                [] out = "rate_limit" -> ChatRespond(q, 429, "ai_rate_limited", FALSE, <<>>)
                [] out = "api_error" -> SoftError(q, "trouble")
                [] OTHER -> ChatRespond(q, 500, "raised", FALSE, <<>>)]
        /\ last_op' = [NoOp EXCEPT !.op = "chat_llm", !.provider = "anthropic", !.fn = out,
                         !.invoked = TRUE, !.recorded = rec]
        /\ UNCHANGED <<now, tasks, wxVars, aiVars, rlVars, rpVars, yVars>>

\* one tool_use block is executed under its deadline and its references are extracted;
\* after the last block the results are appended to messages and the loop goes on
\*   out: "returned" | "deadline";  found: the locations of a search result;
\*   lookup: "ok" | "error", the locations lookup that names a get_weather reference
ChatTool(c, out, found, lookup) ==
    LET q == chreq[c]
        i == Len(q.tool_results) + 1
        block == q.blocks[i]
        locs == IF out = "returned" THEN found ELSE <<>>
        crash == block.name = "get_weather" /\ block.slug \notin q.seen_slugs
                    /\ lookup = "error"
        q1 == ExtractReferences([q EXCEPT !.tool_results = AppendResult(@, i, out)],
                                block, locs)
        q2 == [q1 EXCEPT !.messages = q1.tool_results]
    IN  /\ q.pc = "tools"
        /\ i <= Len(q.blocks)
        /\ chreq' = [chreq EXCEPT ![c] =
              IF crash THEN ChatRespond(q, 500, "raised", FALSE, <<>>)
              ELSE IF i < Len(q.blocks) THEN q1
              ELSE IF LoopExhausted(q.iter)
              THEN ChatRespond(q2, 200, "too_hard", FALSE,
                               Take(last_refs(q2.references, <<>>), MAX_REFERENCES))
              ELSE [q2 EXCEPT !.pc = "llm"]]
        /\ last_op' = [NoOp EXCEPT !.op = "chat_tool", !.fn = out,
                         !.result = IF out = "deadline" THEN "timed_out" ELSE "value"]
        /\ UNCHANGED <<now, cbVars, wxVars, aiVars, rlVars, rpVars, yVars>>

\* ------------------------------------------------------------------------
\* Chat input: history truncation and the messages list (_chat.py)
\* ------------------------------------------------------------------------
MAX_HISTORY == 10
MAX_MESSAGE_LEN == 2000

\* a content string: what it says (the turn it was written for) and its length
Content(text, len) == [text |-> text, len |-> len]

\* content[:n]
Slice(content, n) == [content EXCEPT !.len = Min(@, n)]

ContentLens == {100, 2500}

\* turn i of a conversation, oldest first: the user speaks first, then the assistant
ChatMessage(i, len) ==
    [role |-> IF i % 2 = 1 THEN "user" ELSE "assistant", content |-> Content(i, len)]

\* body.message after strip(), within MAX_MESSAGE_LEN
NewMessage == Content("new", 100)

InitIn == chat_input = [pc |-> "compose", history |-> <<>>, messages |-> <<>>]

InOp == [NoOp EXCEPT !.op = "chat_input"]

\* the history list and the messages list built from it
BuildMessages(body_history, message) ==
    LET history == [i \in 1..Len(Take(body_history, MAX_HISTORY)) |->
                       [role |-> body_history[i].role,
                        content |-> Slice(body_history[i].content, MAX_MESSAGE_LEN)]]
    IN  Append(history, [role |-> "user", content |-> message])

\* the client adds the next turn of the conversation to the history of its request
ComposeTurn(len) ==
    /\ chat_input.pc = "compose"
    /\ Len(chat_input.history) < MaxTurns
    /\ chat_input' = [chat_input EXCEPT
          !.history = Append(@, ChatMessage(Len(@) + 1, len))]
    /\ last_op' = InOp
    /\ UNCHANGED <<now, cbVars, wxVars, aiVars, rlVars, rpVars, chVars, haVars, zVars>>

\* chat builds the messages for the LLM from the request body
ChatBuild ==
    /\ chat_input.pc = "compose"
    /\ chat_input' = [chat_input EXCEPT
          !.pc = "built", !.messages = BuildMessages(chat_input.history, NewMessage)]
    /\ last_op' = InOp
    /\ UNCHANGED <<now, cbVars, wxVars, aiVars, rlVars, rpVars, chVars, haVars, zVars>>

\* ------------------------------------------------------------------------
\* History analysis (_history_analyze.py)
\* ------------------------------------------------------------------------
HA_RATE_LIMIT_MAX == 10
HA_RATE_LIMIT_WINDOW == 3600
CACHE_TTL == 3600
SECONDS_PER_DAY == 86400

\* the model follows two calls, one after the other
HaReqs == {1, 2}
HaIp == "1.2.3.4"
HaLocations == {"harare", "atlantis", ""}
KnownLocations == {"harare"}
HaDays == {7, 30}

RECURSIVE SortRows(_)
\* .sort("recordedAt", 1): ascending by recordedAt (rows of one instant in the order of
\* their fetches)
SortRows(rows) ==
    IF rows = {} THEN <<>>
    ELSE LET first == CHOOSE h \in rows :
                 \A g \in rows : \/ h.recordedAt < g.recordedAt
                                 \/ h.recordedAt = g.recordedAt /\ h.data.req <= g.data.req
         IN  <<first>> \o SortRows(rows \ {first})

\* find({locationSlug, recordedAt >= cutoff}).sort(recordedAt)
HistoryRows(slug, days, t) ==
    SortRows({h \in weather_history :
                 h.locationSlug = slug /\ h.recordedAt >= t - days * SECONDS_PER_DAY})

\* the digest of the rows' (date, current temperature) pairs: the rows carry no "date"
\* field, so each pair is ("", reading), the reading being the one of the row's fetch
data_hash(history) == [i \in 1..Len(history) |-> [d |-> "", t |-> history[i].data.req]]

\* cache_key = f"{location_slug}:{days}:{data_hash}"
cache_key(slug, days, hash) == <<slug, days, hash>>
NoKey == <<>>

\* _aggregate_stats: the summary text is a function of the rows
_aggregate_stats(history) == [points |-> Len(history), of |-> data_hash(history)]
NoStats == [points |-> 0, of |-> <<>>]

NoAnalysis == [kind |-> "none", req |-> 0]
NoHaResp == [status |-> 0, cached |-> FALSE, error |-> FALSE, analysis |-> NoAnalysis,
             stats |-> NoStats, dataPoints |-> 0]
NewHa == [pc |-> "new", key |-> NoKey, stats |-> NoStats, analysis |-> NoAnalysis,
          resp |-> NoHaResp]

\* label of a step of the history analysis endpoint
HaOp == [NoOp EXCEPT !.op = "history_analyze"]

InitHa ==
    /\ history_analysis = {}
    /\ hareq = [r \in HaReqs |-> NewHa]

\* variant: the cache lookup ignores the expiry of the stored analysis
_cached_analysis_no_expiry(key, t) ==
    {d \in history_analysis : d.cacheKey = key /\ d.analysis.kind # "empty"}

\* find_one({cacheKey, expiresAt > now}) and "cached and cached.get('analysis')": the
\* stored documents that answer the request (an empty analysis text does not)
_cached_analysis(key, t) ==
    {d \in history_analysis :
        d.cacheKey = key /\ d.expiresAt > t /\ d.analysis.kind # "empty"}

\* the handler raises an HTTPException (or an exception propagates)
HaRaise(q, status) == [NewHa EXCEPT !.pc = "done", !.key = q.key, !.resp.status = status]

\* the handler returns a body
HaReturn(q, cached, error, analysis, stats) ==
    [NewHa EXCEPT !.pc = "done", !.key = q.key,
                  !.resp = [status |-> 200, cached |-> cached, error |-> error,
                            analysis |-> analysis, stats |-> stats,
                            dataPoints |-> stats.points]]

\* analyze_history up to the cache check: location, client address, check_rate_limit,
\* locations lookup, history query, data hash and cache lookup
\*   env: "ok", or the one store call that raises
HaStart(r, location, ip, days, env) ==
    LET q == hareq[r]
        k == RateKey("history_analyze", ip)
        post == RateAfter(rate_limits[k], rate_ids + 1, now + HA_RATE_LIMIT_WINDOW)
        rate == RateResult(post, HA_RATE_LIMIT_MAX)
        counted == location # "" /\ ip # "none" /\ env # "rate_error"
        history == HistoryRows(location, days, now)
        key == cache_key(location, days, data_hash(history))
        hits == IF env = "cache_error" THEN {} ELSE _cached_analysis(key, now)
        q1 == [q EXCEPT !.key = key]
    IN  /\ q.pc = "new"
        /\ rate_limits' = IF counted THEN [rate_limits EXCEPT ![k] = post] ELSE rate_limits
        /\ rate_ids' = IF counted /\ rate_limits[k] = NoRate THEN rate_ids + 1 ELSE rate_ids
        /\ \E hit \in IF hits = {} THEN {NoAnalysis} ELSE {d.analysis : d \in hits} :
              hareq' = [hareq EXCEPT ![r] =
                 CASE location = "" \/ ip = "none" -> HaRaise(q, 400)
                   [] env = "rate_error" -> HaRaise(q, 500)
                   [] ~rate.allowed -> HaRaise(q, 429)
                   [] env = "locations_error" -> HaRaise(q, 500)
                   [] location \notin KnownLocations -> HaRaise(q, 404)
                   [] env = "history_error" -> HaRaise(q, 500)
                   [] history = <<>> -> HaRaise(q, 404)
                   [] hits # {} ->
                        HaReturn(q1, TRUE, FALSE, hit,
                                 (CHOOSE d \in hits : d.analysis = hit).stats)
                   [] OTHER -> [q1 EXCEPT !.pc = "llm", !.stats = _aggregate_stats(history)]]
        /\ last_op' = HaOp
        /\ UNCHANGED <<now, cbVars, wxVars, aiVars, rlreq, rpVars, chVars, inVars,
                       history_analysis, zVars>>

\* analyze_history: _get_client, the breaker gate and the LLM call
\*   client: an API key is configured
\*   out: "text" | "empty_text" | "no_text" | "rate_limit" | "api_error" | "raised"
HaLlm(r, client, out) ==
    LET cfg == PROVIDER_CONFIGS["anthropic"]
        q == hareq[r]
        s == circuit_states["anthropic"]
        allowed == is_allowed(s, cfg, now)
        called == client /\ allowed
        rec == CASE ~called -> "none"
                 [] out \in {"text", "empty_text", "no_text"} -> "success"
                 [] out \in {"rate_limit", "api_error"} -> "failure"
                 [] OTHER -> "none"
    IN  /\ q.pc = "llm"
        /\ rec = "failure" => FitsBound(state(s, cfg, now), cfg, now)
        /\ circuit_states' = [circuit_states EXCEPT !["anthropic"] =
              CASE ~client -> @
                [] rec = "success" -> record_success(state(@, cfg, now))
                [] rec = "failure" -> record_failure(state(@, cfg, now), cfg, now)
                [] OTHER -> state(@, cfg, now)]
        /\ hareq' = [hareq EXCEPT ![r] =
              CASE ~client -> HaRaise(q, 503)
                [] ~allowed -> HaReturn(q, FALSE, TRUE, [kind |-> "recovering", req |-> r],
                                        q.stats)
                [] out = "text" -> [q EXCEPT !.pc = "store",
                                             !.analysis = [kind |-> "llm", req |-> r]]
                [] out = "empty_text" -> [q EXCEPT !.pc = "store",
                                                   !.analysis = [kind |-> "empty", req |-> r]]
                [] out = "no_text" -> [q EXCEPT !.pc = "store",
                                                !.analysis = [kind |-> "unable", req |-> r]]
                [] out = "rate_limit" -> HaRaise(q, 429)
                [] out = "api_error" ->
                     HaReturn(q, FALSE, TRUE, [kind |-> "unavailable", req |-> r], q.stats)
                [] OTHER -> HaRaise(q, 500)]
        /\ last_op' = HaOp
        /\ UNCHANGED <<now, tasks, wxVars, aiVars, rlVars, rpVars, chVars, inVars,
                       history_analysis, zVars>>

\* analyze_history: the cache write (a store error is swallowed) and the response
HaStore(r, storeOk) ==
    LET q == hareq[r]
        doc == [cacheKey |-> q.key, analysis |-> q.analysis, stats |-> q.stats,
                expiresAt |-> now + CACHE_TTL]
    IN  /\ q.pc = "store"
        /\ history_analysis' =
              IF storeOk
              THEN {d \in history_analysis : d.cacheKey # q.key} \cup {doc}
              ELSE history_analysis
        /\ hareq' = [hareq EXCEPT ![r] = HaReturn(q, FALSE, FALSE, q.analysis, q.stats)]
        /\ last_op' = HaOp
        /\ UNCHANGED <<now, cbVars, wxVars, aiVars, rlVars, rpVars, chVars, inVars, zVars>>

\* the store's TTL index removes an expired analysis (eventually)
HaTtlEvict ==
    /\ \E d \in history_analysis : d.expiresAt <= now
    /\ history_analysis' = {d \in history_analysis : d.expiresAt > now}
    /\ last_op' = HaOp
    /\ UNCHANGED <<now, cbVars, wxVars, aiVars, rlVars, rpVars, chVars, inVars, hareq, zVars>>

\* ------------------------------------------------------------------------
\* Report clarification (_reports.py)
\* ------------------------------------------------------------------------
CLARIFY_RATE_LIMIT == 10
CLARIFY_RATE_WINDOW == 3600

\* the model follows one request
ClReqs == {1}
ClIp == "1.2.3.4"

\* body.reportType: two of REPORT_TYPES and a value outside it
ClTypes == {"frost", "hail", "tornado"}
REPORT_TYPES == {"light-rain", "heavy-rain", "thunderstorm", "hail", "flooding",
                 "strong-wind", "clear-skies", "fog", "dust", "frost"}

\* a line of the LLM's text: "digit": it starts with a digit ("1. How deep ...?"),
\* "plain": it starts with another character, "blank": it is empty after strip()
LineKinds == {"digit", "plain", "blank"}

\* the texts of the model: up to MaxLines lines, the i-th line carrying question i
LlmTexts ==
    UNION {[1..n -> LineKinds] : n \in 0..MaxLines}

\* _fallback_questions: the two hardcoded questions of the report type
_fallback_questions(report_type) ==
    <<[from |-> "fallback", type |-> report_type, text |-> 1],
      [from |-> "fallback", type |-> report_type, text |-> 2]>>

RECURSIVE ParseQuestions(_, _)
\* the list comprehension over the lines of the text: the lines that start with a
\* digit, without their leading digits and dots
ParseQuestions(kinds, i) ==
    IF i > Len(kinds) THEN <<>>
    ELSE IF kinds[i] = "digit"
         THEN <<[from |-> "llm", type |-> "none", text |-> i]>> \o ParseQuestions(kinds, i + 1)
         ELSE ParseQuestions(kinds, i + 1)

\* questions[:2] if questions else _fallback_questions(reportType)
AnswerQuestions(questions, report_type) ==
    IF questions # <<>> THEN Take(questions, 2) ELSE _fallback_questions(report_type)

NoClResp == [status |-> 0, questions |-> <<>>]
NewCl == [pc |-> "new", reportType |-> "none", resp |-> NoClResp]
ClOp == [NoOp EXCEPT !.op = "clarify"]

InitCl == clreq = [r \in ClReqs |-> NewCl]

ClRespond(status, questions) ==
    [NewCl EXCEPT !.pc = "done", !.resp = [status |-> status, questions |-> questions]]

\* clarify_report up to the LLM call: client address, report type, check_rate_limit,
\* locations lookup, _get_client and the breaker gate
\*   env: "ok", or the store call that raises;  client: an API key is configured
ClStart(r, ip, type, env, client) ==
    LET cfg == PROVIDER_CONFIGS["anthropic"]
        k == RateKey("report_clarify", ip)
        post == RateAfter(rate_limits[k], rate_ids + 1, now + CLARIFY_RATE_WINDOW)
        rate == RateResult(post, CLARIFY_RATE_LIMIT)
        counted == ip # "none" /\ type \in REPORT_TYPES /\ env # "rate_error"
        gated == counted /\ rate.allowed /\ env = "ok" /\ client
        allowed == is_allowed(circuit_states["anthropic"], cfg, now)
    IN  /\ clreq[r].pc = "new"
        /\ rate_limits' = IF counted THEN [rate_limits EXCEPT ![k] = post] ELSE rate_limits
        /\ rate_ids' = IF counted /\ rate_limits[k] = NoRate THEN rate_ids + 1 ELSE rate_ids
        /\ circuit_states' = IF gated
                             THEN [circuit_states EXCEPT !["anthropic"] = state(@, cfg, now)]
                             ELSE circuit_states
        /\ clreq' = [clreq EXCEPT ![r] =
              CASE ip = "none" \/ type \notin REPORT_TYPES -> ClRespond(400, <<>>)
                [] env = "rate_error" -> ClRespond(500, <<>>)
                [] ~rate.allowed -> ClRespond(429, <<>>)
                [] env = "locations_error" -> ClRespond(500, <<>>)
                [] ~client \/ ~allowed -> ClRespond(200, _fallback_questions(type))
                [] OTHER -> [NewCl EXCEPT !.pc = "llm", !.reportType = type]]
        /\ last_op' = ClOp
        /\ UNCHANGED <<now, tasks, wxVars, aiVars, rlreq, rpVars, chVars, inVars, haVars, cvreq, advice,
                       uVars>>

\* clarify_report: the LLM call, the parse of its text and the response
\*   out: "text" | "no_text" | "error";  kinds: the lines of the text
ClFinish(r, out, kinds) ==
    LET cfg == PROVIDER_CONFIGS["anthropic"]
        q == clreq[r]
        questions == IF out = "text" THEN ParseQuestions(kinds, 1) ELSE <<>>
    IN  /\ q.pc = "llm"
        /\ out = "error" => FitsBound(circuit_states["anthropic"], cfg, now)
        /\ circuit_states' = [circuit_states EXCEPT !["anthropic"] =
              IF out = "error" THEN record_failure(@, cfg, now) ELSE record_success(@)]
        /\ clreq' = [clreq EXCEPT ![r] =
              IF out = "error" THEN ClRespond(200, _fallback_questions(q.reportType))
              ELSE ClRespond(200, AnswerQuestions(questions, q.reportType))]
        /\ last_op' = ClOp
        /\ UNCHANGED <<now, tasks, wxVars, aiVars, rlVars, rpVars, chVars, inVars, haVars, cvreq, advice,
                       uVars>>

\* ------------------------------------------------------------------------
\* Cross-validation of a report against the weather snapshot (_reports.py)
\* ------------------------------------------------------------------------
\* a value of the cached current conditions: <<>> is None, <<v>> is the number v
Absent == <<>>
Some(v) == <<v>>

\* x or d: d when x is None or zero
OrDefault(x, d) == IF x = Absent \/ x[1] = 0 THEN d ELSE x[1]

\* temperatures, precipitation, wind speeds and weather codes of the cached conditions
SnapTemps == {Absent} \cup {Some(v) : v \in -MaxTemp..MaxTemp}
SnapPrecips == {Absent, Some(0), Some(2)}
SnapWinds == {Absent, Some(20), Some(21)}
SnapCodes == {Absent, Some(0), Some(1), Some(45), Some(61), Some(95)}

\* weather_snapshot = {}: no cache row, no current conditions or a failed read
NoSnapshot == [present |-> FALSE, temperature |-> Absent, weatherCode |-> Absent,
               precipitation |-> Absent, windSpeed |-> Absent]

\* the snapshot submit_report builds from the cache row's data.current
Snapshot(curr) ==
    [present |-> TRUE, temperature |-> curr.temperature_2m, weatherCode |-> curr.weather_code,
     precipitation |-> curr.precipitation, windSpeed |-> curr.wind_speed_10m]

\* temp = snapshot.get("temperature", 20) or 20
SnapTemp(snapshot) == OrDefault(snapshot.temperature, 20)

\* _cross_validate
_cross_validate(report_type, snapshot) ==
    LET precip == OrDefault(snapshot.precipitation, 0)
        wind == OrDefault(snapshot.windSpeed, 0)
        code == OrDefault(snapshot.weatherCode, 0)
        temp == SnapTemp(snapshot)
    IN  IF ~snapshot.present THEN FALSE
        ELSE \/ report_type \in {"light-rain", "heavy-rain"} /\ (precip > 0 \/ code \in 51..82)
             \/ report_type = "thunderstorm" /\ code \in {95, 96, 99}
             \/ report_type = "strong-wind" /\ wind > 20
             \/ report_type = "clear-skies" /\ code \in {0, 1} /\ precip = 0
             \/ report_type = "fog" /\ code \in {45, 48}
             \/ report_type = "frost" /\ temp <= 3

NewCv == [pc |-> "new", reportType |-> "none", snapshot |-> NoSnapshot, verified |-> FALSE]
CvOp == [NoOp EXCEPT !.op = "cross_validate"]

InitCv == cvreq = NewCv

\* submit_report reads the cache row and builds weather_snapshot
\*   cached: "row" (a row with current conditions) | "none" | "error"
TakeSnapshot(report_type, cached, curr) ==
    /\ cvreq.pc = "new"
    /\ cvreq' = [pc |-> "snapshot", reportType |-> report_type,
                 snapshot |-> IF cached = "row" THEN Snapshot(curr) ELSE NoSnapshot,
                 verified |-> FALSE]
    /\ last_op' = CvOp
    /\ UNCHANGED <<now, cbVars, wxVars, aiVars, rlVars, rpVars, chVars, inVars, haVars, clreq, advice,
                   uVars>>

\* verified = _cross_validate(body.reportType, weather_snapshot)
CrossValidate ==
    /\ cvreq.pc = "snapshot"
    /\ cvreq' = [cvreq EXCEPT !.pc = "done",
                              !.verified = _cross_validate(cvreq.reportType, cvreq.snapshot)]
    /\ last_op' = CvOp
    /\ UNCHANGED <<now, cbVars, wxVars, aiVars, rlVars, rpVars, chVars, inVars, haVars, clreq, advice,
                   uVars>>

\* ------------------------------------------------------------------------
\* Activity advice: the get_activity_advice tool (_chat.py)
\* ------------------------------------------------------------------------
\* the insights fields the rules of the model test, and the comparison operators
Fields == {"heatStressIndex", "windSpeed"}
Operators == {"gt", "gte", "lt", "lte", "eq"}

\* the insights of the cached weather: a number per field, None for a field that is missing
InsightValues == 0..MaxInsight
Insights == [Fields -> {None} \cup InsightValues]

\* activities_collection: "running" is stored, "ghost" is not; the stored document may
\* lack its category
ActivityIds == {"running", "ghost"}
Categories == {"sports", "missing"}
ActivityDoc(category) == [id |-> "running", label |-> "Running", category |-> category]

\* activity.get("category", "casual")
Category(activity) == IF activity.category = "missing" THEN "casual" ELSE activity.category

\* the keys of suitability_rules the two activities can ask for
RuleKey(kind, name) == <<kind, name>>
RuleKeys == {RuleKey("activity", a) : a \in ActivityIds} \cup
            {RuleKey("category", c) : c \in {"sports", "casual"}}

\* the rules of the model test the two fields in turn
FieldAt(i) == IF i % 2 = 1 THEN "heatStressIndex" ELSE "windSpeed"

\* a rule document: its i-th condition is labelled (key, i), its fallback (key, 0);
\* tests: the operators of its conditions, every threshold is 1
NoLabel == [rule |-> RuleKey("none", "none"), n |-> 0]
RuleDoc(key, tests) ==
    [key |-> key,
     conditions |-> [i \in DOMAIN tests |->
                       [field |-> FieldAt(i), operator |-> tests[i], value |-> 1,
                        level |-> "poor", label |-> [rule |-> key, n |-> i]]],
     fallback |-> [level |-> "fair", label |-> [rule |-> key, n |-> 0]]]
NoRule == [key |-> RuleKey("none", "none"), conditions |-> <<>>,
           fallback |-> [level |-> "none", label |-> NoLabel]]

Tests == UNION {[1..n -> Operators] : n \in 0..MaxConds}

\* the rule stored for a category, and the one an earlier tool call of the same chat
\* request left in rules_cache
CategoryRule(key) == RuleDoc(key, <<"gte">>)
CachedRule(key) == RuleDoc(key, <<"eq", "lt">>)

\* variant: gte and lte compare strictly
Matched_strict(op, value, threshold) ==
    CASE op \in {"gt", "gte"} -> value > threshold
      [] op \in {"lt", "lte"} -> value < threshold
      [] op = "eq" -> value = threshold
      [] OTHER -> FALSE

\* the operator chain of the condition loop
Matched(op, value, threshold) ==
    CASE op = "gt" -> value > threshold
      [] op = "gte" -> value >= threshold
      [] op = "lt" -> value < threshold
      [] op = "lte" -> value <= threshold
      [] op = "eq" -> value = threshold
      [] OTHER -> FALSE

Rating(label, level, lab) == [activity |-> label, level |-> level, label |-> lab]
UnknownActivity(id) == [activity |-> id, level |-> "error", label |-> NoLabel]

RECURSIVE EvaluateConditions(_, _, _, _)
\* the loop over rule["conditions"]: first match wins, then the rule's fallback
EvaluateConditions(rule, i, insights, label) ==
    IF i > Len(rule.conditions)
    THEN Rating(label, rule.fallback.level, rule.fallback.label)
    ELSE LET cond == rule.conditions[i]
             value == insights[cond.field]
         IN  IF value # None /\ Matched(cond.operator, value, cond.value)
             THEN Rating(label, cond.level, cond.label)
             ELSE EvaluateConditions(rule, i + 1, insights, label)

\* the rating of one known activity from the rules cache
RateActivity(activity, rules_cache, insights) ==
    LET ka == RuleKey("activity", activity.id)
        kc == RuleKey("category", Category(activity))
    IN  IF rules_cache[ka] # NoRule
        THEN EvaluateConditions(rules_cache[ka], 1, insights, activity.label)
        ELSE IF rules_cache[kc] # NoRule
             THEN EvaluateConditions(rules_cache[kc], 1, insights, activity.label)
             ELSE Rating(activity.label, "good", NoLabel)

EmptyCache == [k \in RuleKeys |-> NoRule]
NoInsights == [f \in Fields |-> None]
NoActivity == [id |-> "none", label |-> "none", category |-> "missing"]
NewAdvice == [pc |-> "new", activity |-> NoActivity, insights |-> NoInsights,
              rules_cache |-> EmptyCache, kind |-> "none", ratings |-> <<>>]
AdviceOp == [NoOp EXCEPT !.op = "get_activity_advice"]

InitAdvice == advice = NewAdvice

\* _execute_get_activity_advice for one activity id
\*   category: the stored activity's category; insights: of the cached weather;
\*   tests: the conditions of the stored rule activity:{id}, or "none" without such a rule;
\*   categoryRule: a rule is stored for the category;  cache: the caller's rules_cache;
\*   env: "ok", or the call that fails
GetActivityAdvice(id, category, insights, hasRule, tests, categoryRule, cache, env) ==
    LET doc == ActivityDoc(category)
        known == id = doc.id /\ env # "activities_error"
        stored(k) == IF k[1] = "activity"
                     THEN IF hasRule THEN RuleDoc(k, tests) ELSE NoRule
                     ELSE IF categoryRule THEN CategoryRule(k) ELSE NoRule
        needed == IF known
                  THEN {k \in {RuleKey("activity", id), RuleKey("category", Category(doc))} :
                           cache[k] = NoRule}
                  ELSE {}
        rules_cache == IF env = "rules_error" THEN cache
                       ELSE [k \in RuleKeys |-> IF k \in needed THEN stored(k) ELSE cache[k]]
        rated == env # "weather_error" /\ insights # NoInsights
    IN  /\ advice.pc = "new"
        /\ advice' =
              [pc |-> "done",
               activity |-> IF known THEN doc ELSE [NoActivity EXCEPT !.id = id],
               insights |-> insights,
               rules_cache |-> IF rated THEN rules_cache ELSE cache,
               kind |-> CASE env = "weather_error" -> "error"
                          [] insights = NoInsights -> "message"
                          [] OTHER -> "ratings",
               ratings |-> IF ~rated THEN <<>>
                           ELSE IF ~known THEN <<UnknownActivity(id)>>
                           ELSE <<RateActivity(doc, rules_cache, insights)>>]
        /\ last_op' = AdviceOp
        /\ UNCHANGED <<now, cbVars, wxVars, aiVars, rlVars, rpVars, chVars, inVars, haVars,
                       clreq, cvreq, uVars>>

\* ------------------------------------------------------------------------
\* Device profiles (_devices.py)
\* ------------------------------------------------------------------------
VALID_THEMES == {"light", "dark", "system"}

\* the model follows two create requests
DvReqs == {1, 2}
\* body.deviceId: a provided id, or "" for none
BodyDeviceIds == {"dev-a", ""}
\* str(uuid.uuid4()) of a request: fresh, never a provided id
Uuid(r) == IF r = 1 THEN "uuid-1" ELSE "uuid-2"
\* body.preferences.theme
BodyThemes == {"light", "dark", "neon"}

ProfileDoc(device_id, theme, t) ==
    [deviceId |-> device_id, preferences |-> [theme |-> theme], createdAt |-> t,
     updatedAt |-> t]
NoProfile == ProfileDoc("none", "none", None)

\* find_one({"deviceId": device_id}): the documents the filter matches
FindDevice(coll, device_id) == {d \in coll : d.deviceId = device_id}

\* variant: the collection has no unique index
insert_one_no_index(coll, doc) == [ok |-> TRUE, coll |-> coll \cup {doc}]

\* insert_one under the unique index on deviceId: DuplicateKeyError when a document
\* with the deviceId is stored
insert_one(coll, doc) ==
    IF FindDevice(coll, doc.deviceId) # {}
    THEN [ok |-> FALSE, coll |-> coll]
    ELSE [ok |-> TRUE, coll |-> coll \cup {doc}]

NewDv == [pc |-> "new", deviceId |-> "none", theme |-> "none", status |-> 0,
          profile |-> NoProfile]
DvOp == [NoOp EXCEPT !.op = "devices"]

InitDv ==
    /\ device_profiles = {}
    /\ dvreq = [r \in DvReqs |-> NewDv]

DvRespond(q, status, profile) == [q EXCEPT !.pc = "done", !.status = status, !.profile = profile]

\* create_device up to insert_one
\*   env: "ok" | "index_error" (create_index raises)
DvCreate(r, body_id, theme, env) ==
    LET device_id == IF body_id = "" THEN Uuid(r) ELSE body_id
        doc == ProfileDoc(device_id, theme, now)
        ins == insert_one(device_profiles, doc)
        q == [dvreq[r] EXCEPT !.deviceId = device_id, !.theme = theme]
        stores == env = "ok" /\ theme \in VALID_THEMES
    IN  /\ dvreq[r].pc = "new"
        /\ device_profiles' = IF stores THEN ins.coll ELSE device_profiles
        /\ dvreq' = [dvreq EXCEPT ![r] =
              CASE env # "ok" -> DvRespond(q, 500, NoProfile)
                [] theme \notin VALID_THEMES -> DvRespond(q, 400, NoProfile)
                [] ins.ok -> DvRespond(q, 201, doc)
                [] OTHER -> [q EXCEPT !.pc = "duplicate"]]
        /\ last_op' = DvOp
        /\ UNCHANGED <<now, cbVars, wxVars, aiVars, rlVars, rpVars, chVars, inVars, haVars,
                       clreq, cvreq, advice, slugreq, lcVars>>

\* create_device after DuplicateKeyError: find_one and the response
DvFindExisting(r) ==
    LET q == dvreq[r]
        found == FindDevice(device_profiles, q.deviceId)
    IN  /\ q.pc = "duplicate"
        /\ \E existing \in IF found = {} THEN {NoProfile} ELSE found :
              dvreq' = [dvreq EXCEPT ![r] =
                 IF found = {} THEN DvRespond(q, 409, NoProfile)
                 ELSE DvRespond(q, 201, existing)]
        /\ last_op' = DvOp
        /\ UNCHANGED <<now, cbVars, wxVars, aiVars, rlVars, rpVars, chVars, inVars, haVars,
                       clreq, cvreq, advice, device_profiles, slugreq,
                       lcVars>>

\* update_preferences with a theme: one find_one_and_update
DvUpdate(device_id, theme) ==
    /\ theme \in VALID_THEMES
    /\ device_profiles' =
          {IF d.deviceId = device_id
           THEN [d EXCEPT !.preferences.theme = theme, !.updatedAt = now]
           ELSE d : d \in device_profiles}
    /\ last_op' = DvOp
    /\ UNCHANGED <<now, cbVars, wxVars, aiVars, rlVars, rpVars, chVars, inVars, haVars,
                   clreq, cvreq, advice, dvreq, slugreq, lcVars>>

\* ------------------------------------------------------------------------
\* Slug generation (_locations.py)
\* ------------------------------------------------------------------------
SLUG_MAX == 80

\* characters of a name: a lower-case letter, an upper-case letter, an accented
\* letter, a blank, a hyphen and a character without ASCII decomposition
NameChars == {"a", "B", "e_acute", " ", "-", "cjk"}
SlugLetters == {"a", "b", "e", "k"}

\* str.lower
Lower(c) == CASE c = "B" -> "b" [] c = "K" -> "k" [] c = "E" -> "e" [] OTHER -> c

\* unicodedata.normalize("NFKD", name).encode("ascii", "ignore").decode("ascii"): the
\* accent is dropped from an accented letter, a character without decomposition is
\* dropped whole
ToAscii(name) ==
    LET HasAscii(c) == c # "cjk"
        kept == SelectSeq(name, HasAscii)
    IN  [i \in DOMAIN kept |-> IF kept[i] = "e_acute" THEN "e" ELSE kept[i]]

\* re.sub(r"[^a-z0-9]+", "-", s): every run of other characters becomes one hyphen
Hyphenate(str) ==
    LET marked == [i \in DOMAIN str |->
                     IF str[i] \in SlugLetters THEN str[i]
                     ELSE IF i < Len(str) /\ str[i + 1] \notin SlugLetters THEN "drop"
                     ELSE "-"]
        Kept(c) == c # "drop"
    IN  SelectSeq(marked, Kept)

\* str.strip("-")
Strip(str) ==
    LET inner == {i \in DOMAIN str : str[i] # "-"}
        first == CHOOSE i \in inner : \A j \in inner : i <= j
        last == CHOOSE i \in inner : \A j \in inner : j <= i
    IN  IF inner = {} THEN <<>> ELSE SubSeq(str, first, last)

\* countries of the model, with country.upper() and country.lower()
Countries == {"ZW", "zw", "KE", ""}
Upper(country) == IF country = "zw" THEN "ZW" ELSE country
LowerCountry(country) ==
    CASE country \in {"ZW", "zw"} -> <<"z", "w">>
      [] country = "KE" -> <<"k", "e">>
      [] OTHER -> <<>>

\* _generate_slug
_generate_slug(name, country) ==
    LET lowered == [i \in DOMAIN ToAscii(name) |-> Lower(ToAscii(name)[i])]
        slug == Strip(Hyphenate(lowered))
        suffixed == IF country # "" /\ Upper(country) # "ZW"
                    THEN slug \o <<"-">> \o LowerCountry(country)
                    ELSE slug
    IN  Take(suffixed, SLUG_MAX)

\* names of the model: a run of letters of a given length, then a few characters
Letters(n) == [i \in 1..n |-> "a"]
PadLens == {0, 76, 77, 78, 79, 80}
NameTails == UNION {[1..n -> NameChars] : n \in 0..MaxTail}

NewSlug == [pc |-> "new", name |-> <<>>, country |-> "", slug |-> <<>>, again |-> <<>>]
SlugOp == [NoOp EXCEPT !.op = "generate_slug"]

InitSlug == slugreq = NewSlug

\* slug = _generate_slug(name, country)
GenerateSlug(name, country) ==
    /\ slugreq.pc = "new"
    /\ slugreq' = [NewSlug EXCEPT !.pc = "slug", !.name = name, !.country = country,
                                  !.slug = _generate_slug(name, country)]
    /\ last_op' = SlugOp
    /\ UNCHANGED <<now, cbVars, wxVars, aiVars, rlVars, rpVars, chVars, inVars, haVars,
                   clreq, cvreq, advice, device_profiles, dvreq,
                   lcVars>>

\* _generate_slug applied to the slug
GenerateAgain ==
    /\ slugreq.pc = "slug"
    /\ slugreq' = [slugreq EXCEPT !.pc = "done",
                                  !.again = _generate_slug(slugreq.slug, slugreq.country)]
    /\ last_op' = SlugOp
    /\ UNCHANGED <<now, cbVars, wxVars, aiVars, rlVars, rpVars, chVars, inVars, haVars,
                   clreq, cvreq, advice, device_profiles, dvreq,
                   lcVars>>

\* ------------------------------------------------------------------------
\* Community locations: add_location, coordinates mode (_locations.py)
\* ------------------------------------------------------------------------
ADD_RATE_LIMIT == 5
ADD_RATE_WINDOW == 3600

\* the model follows three requests, each for coordinates of its own
LcReqs == {1, 2, 3}
LcIp == "1.2.3.4"

\* a slug: letters followed by the numbers that hyphens attach ("riverside-2-2")
SlugOf(base, numbers) == [base |-> base, numbers |-> numbers]
\* geocoded names and what _generate_slug makes of them
GeoNames == {"Riverside", "Riverside 2"}
NameSlug(name) ==
    IF name = "Riverside" THEN SlugOf("riverside", <<>>) ELSE SlugOf("riverside", <<2>>)
\* f"{slug}-{suffix}"
WithSuffix(slug, suffix) == [slug EXCEPT !.numbers = Append(@, suffix)]

\* find_one({"slug": slug})
FindSlug(coll, slug) == {d \in coll : d.slug = slug}

NoSlug == SlugOf("none", <<>>)
NewLc == [pc |-> "new", base |-> NoSlug, suffix |-> 0, slug |-> NoSlug, mode |-> "none",
          status |-> 0]
LcOp == [NoOp EXCEPT !.op = "add_location"]

InitLc ==
    /\ locations = {}
    /\ lcreq = [r \in LcReqs |-> NewLc]

LcRespond(q, status, mode) == [q EXCEPT !.pc = "done", !.status = status, !.mode = mode]

\* add_location from the coordinates to the first find_one on the slug
\*   env: "ok" | "invalid" | "outside" | "rate_error" | "no_geocode" | "duplicate"
LcStart(r, name, env) ==
    LET k == RateKey("location-create", LcIp)
        post == RateAfter(rate_limits[k], rate_ids + 1, now + ADD_RATE_WINDOW)
        rate == RateResult(post, ADD_RATE_LIMIT)
        counted == env \notin {"invalid", "outside", "rate_error"}
        slug == NameSlug(name)
        q == [lcreq[r] EXCEPT !.base = slug]
    IN  /\ lcreq[r].pc = "new"
        /\ r > 1 => lcreq[r - 1].pc # "new"     \* the requests are interchangeable
        /\ rate_limits' = IF counted THEN [rate_limits EXCEPT ![k] = post] ELSE rate_limits
        /\ rate_ids' = IF counted /\ rate_limits[k] = NoRate THEN rate_ids + 1 ELSE rate_ids
        /\ lcreq' = [lcreq EXCEPT ![r] =
              CASE env \in {"invalid", "outside"} -> LcRespond(q, 400, "none")
                [] env = "rate_error" -> LcRespond(q, 500, "none")
                [] ~rate.allowed -> LcRespond(q, 429, "none")
                [] env = "no_geocode" -> LcRespond(q, 422, "none")
                [] env = "duplicate" -> LcRespond(q, 200, "duplicate")
                [] FindSlug(locations, slug) = {} -> [q EXCEPT !.pc = "insert", !.slug = slug]
                [] OTHER -> [q EXCEPT !.pc = "probe", !.suffix = 2]]
        /\ last_op' = LcOp
        /\ UNCHANGED <<now, cbVars, wxVars, aiVars, rlreq, rpVars, chVars, inVars, haVars,
                       clreq, cvreq, advice, device_profiles, dvreq, slugreq, locations,
                       idlog, exVars>>

\* one turn of the collision loop: find_one on f"{slug}-{suffix}"
LcProbe(r) ==
    LET q == lcreq[r]
        candidate == WithSuffix(q.base, q.suffix)
    IN  /\ q.pc = "probe"
        /\ lcreq' = [lcreq EXCEPT ![r] =
              IF FindSlug(locations, candidate) # {}
              THEN [q EXCEPT !.suffix = q.suffix + 1]
              ELSE [q EXCEPT !.pc = "insert", !.slug = candidate]]
        /\ last_op' = LcOp
        /\ UNCHANGED <<now, cbVars, wxVars, aiVars, rlVars, rpVars, chVars, inVars, haVars,
                       clreq, cvreq, advice, device_profiles, dvreq, slugreq, locations,
                       idlog, exVars>>

\* the country and province upserts, insert_one(new_loc) and the response
\*   storeOk = FALSE: one of the store calls raises
LcInsert(r, storeOk) ==
    LET q == lcreq[r]
    IN  /\ q.pc = "insert"
        /\ locations' = IF storeOk THEN locations \cup {[slug |-> q.slug, by |-> r]}
                        ELSE locations
        /\ lcreq' = [lcreq EXCEPT ![r] =
              IF storeOk THEN LcRespond(q, 200, "created") ELSE LcRespond(q, 500, "none")]
        /\ last_op' = LcOp
        /\ UNCHANGED <<now, cbVars, wxVars, aiVars, rlVars, rpVars, chVars, inVars, haVars,
                       clreq, cvreq, advice, device_profiles, dvreq, slugreq, idlog, exVars>>

\* ------------------------------------------------------------------------
\* Client identity of the rate-limited endpoints (_db.py and the handlers)
\* ------------------------------------------------------------------------
\* two clients behind the proxy, and the address each one has
Clients == {"A", "B"}
AddressOf(client) == IF client = "A" THEN "1.2.3.4" ELSE "5.6.7.8"

\* a request as the service sees it: the entries of x-forwarded-for (<<>>: no header),
\* x-real-ip ("": no header) and request.client.host
\*   form: the header the proxy sets, "xff" or "real_ip"
ProxiedRequest(client, form) ==
    [forwarded |-> IF form = "xff" THEN <<AddressOf(client), ProxyPeer>> ELSE <<>>,
     real_ip |-> IF form = "real_ip" THEN AddressOf(client) ELSE "",
     peer |-> ProxyPeer]

\* get_client_ip
get_client_ip(request) ==
    IF request.forwarded # <<>> THEN request.forwarded[1]
    ELSE IF request.real_ip # "" THEN request.real_ip
    ELSE request.peer

\* the ip each handler passes to check_rate_limit
HandlerIdentity(action, request) ==
    IF action \in {"history_analyze", "followup", "explore_search"}
    THEN request.peer
    ELSE get_client_ip(request)

IdOp == [NoOp EXCEPT !.op = "rate_gate"]

InitId == idlog = {}

\* a handler up to its rate-limit gate: the identity and check_rate_limit
RateGate(client, action, form) ==
    LET request == ProxiedRequest(client, form)
        k == RateKey(action, HandlerIdentity(action, request))
        call == [client |-> client, action |-> action, form |-> form, key |-> k]
    IN  /\ Cardinality(idlog) < MaxIdCalls
        /\ call \notin idlog
        /\ rate_limits' = [rate_limits EXCEPT
                             ![k] = RateAfter(@, rate_ids + 1, now + RateWindow)]
        /\ rate_ids' = IF rate_limits[k] = NoRate THEN rate_ids + 1 ELSE rate_ids
        /\ idlog' = idlog \cup {call}
        /\ last_op' = IdOp
        /\ UNCHANGED <<now, cbVars, wxVars, aiVars, rlreq, rpVars, chVars, inVars, haVars,
                       clreq, cvreq, advice, device_profiles, dvreq, slugreq, locations,
                       lcreq, exVars>>

\* ------------------------------------------------------------------------
\* The executor of the chat loop (_chat.py: _tool_executor, asyncio.wait_for)
\* ------------------------------------------------------------------------
TOOL_TIMEOUT_S == 15
max_workers == 2

ExReqs == {1, 2, 3}
ExKinds == {"llm", "tool"}

NewEx == [pc |-> "new", kind |-> "none", submitted_at |-> None, started |-> FALSE,
          result |-> "none"]

ExOp == [NoOp EXCEPT !.op = "executor"]

InitEx ==
    /\ executor = [running |-> {}, queue |-> <<>>]
    /\ exreq = [r \in ExReqs |-> NewEx]

\* ThreadPoolExecutor.submit: an idle worker starts the call, otherwise it is queued
Submit(ex, r) ==
    IF Cardinality(ex.running) < max_workers
    THEN [ex EXCEPT !.running = @ \cup {r}]
    ELSE [ex EXCEPT !.queue = Append(@, r)]

\* a worker whose call returned takes the next queued call
Release(ex, r) ==
    IF ex.queue = <<>>
    THEN [ex EXCEPT !.running = @ \ {r}]
    ELSE [running |-> (ex.running \ {r}) \cup {Head(ex.queue)}, queue |-> Tail(ex.queue)]

\* what cancelling the awaited future does to the call: concurrent.futures cancels a
\* call that is still queued and cannot cancel one a worker is running
Cancel(ex, r) ==
    LET Others(x) == x # r
    IN  [ex EXCEPT !.queue = SelectSeq(@, Others)]

\* one iteration of the loop up to its await: the breaker gate (LLM call only) and
\* loop.run_in_executor(_tool_executor, ...) under asyncio.wait_for
ExSubmit(r, kind) ==
    LET cfg == PROVIDER_CONFIGS["anthropic"]
        allowed == kind = "tool" \/ is_allowed(circuit_states["anthropic"], cfg, now)
        starts == Cardinality(executor.running) < max_workers
    IN  /\ exreq[r].pc = "new"
        /\ \A q \in ExReqs : q < r => exreq[q].pc # "new"
        /\ circuit_states' =
              IF kind = "llm"
              THEN [circuit_states EXCEPT !["anthropic"] = state(@, cfg, now)]
              ELSE circuit_states
        /\ executor' = IF allowed THEN Submit(executor, r) ELSE executor
        /\ exreq' = [exreq EXCEPT ![r] =
              IF allowed
              THEN [pc |-> "waiting", kind |-> kind, submitted_at |-> now,
                    started |-> starts, result |-> "none"]
              ELSE [pc |-> "done", kind |-> kind, submitted_at |-> now,
                    started |-> FALSE, result |-> "breaker_open"]]
        /\ last_op' = ExOp
        /\ UNCHANGED <<now, tasks, wxVars, aiVars, rlVars, rpVars, chVars, inVars, haVars,
                       clreq, cvreq, advice, device_profiles, dvreq, slugreq, locations,
                       lcreq, idlog>>

\* the call a worker runs returns: the worker is free for the next queued call, and a
\* request still awaiting the call resumes (LLM call: record_success)
ExFinish(r) ==
    LET cfg == PROVIDER_CONFIGS["anthropic"]
        q == exreq[r]
        next == IF executor.queue = <<>> THEN {} ELSE {Head(executor.queue)}
    IN  /\ r \in executor.running
        /\ executor' = Release(executor, r)
        /\ exreq' = [x \in ExReqs |->
              IF x = r /\ q.pc = "waiting" THEN [q EXCEPT !.pc = "done", !.result = "ok"]
              ELSE IF x \in next THEN [exreq[x] EXCEPT !.started = TRUE]
              ELSE exreq[x]]
        /\ circuit_states' =
              IF q.pc = "waiting" /\ q.kind = "llm"
              THEN [circuit_states EXCEPT !["anthropic"] = record_success(@)]
              ELSE circuit_states
        /\ last_op' = ExOp
        /\ UNCHANGED <<now, tasks, wxVars, aiVars, rlVars, rpVars, chVars, inVars, haVars,
                       clreq, cvreq, advice, device_profiles, dvreq, slugreq, locations,
                       lcreq, idlog>>

\* asyncio.wait_for raises TimeoutError TOOL_TIMEOUT_S after the submit: the awaited
\* future is cancelled and the request goes on (LLM call: record_failure)
ExDeadline(r) ==
    LET cfg == PROVIDER_CONFIGS["anthropic"]
        q == exreq[r]
    IN  /\ q.pc = "waiting"
        /\ now - q.submitted_at >= TOOL_TIMEOUT_S
        /\ q.kind = "llm" => FitsBound(circuit_states["anthropic"], cfg, now)
        /\ executor' = Cancel(executor, r)
        /\ exreq' = [exreq EXCEPT ![r] = [q EXCEPT !.pc = "done", !.result = "timeout"]]
        /\ circuit_states' =
              IF q.kind = "llm"
              THEN [circuit_states EXCEPT !["anthropic"] = record_failure(@, cfg, now)]
              ELSE circuit_states
        /\ last_op' = ExOp
        /\ UNCHANGED <<now, tasks, wxVars, aiVars, rlVars, rpVars, chVars, inVars, haVars,
                       clreq, cvreq, advice, device_profiles, dvreq, slugreq, locations,
                       lcreq, idlog>>

\* the clock advances while no deadline is due
ExTick ==
    /\ \A r \in ExReqs :
          exreq[r].pc = "waiting" => now - exreq[r].submitted_at < TOOL_TIMEOUT_S
    /\ Tick(ExTickStep, ExMaxTime)

\* ------------------------------------------------------------------------
\* Initial state and specifications
\* ------------------------------------------------------------------------
Init == InitCB /\ InitWx /\ InitAi /\ InitRl /\ InitRp /\ InitCh /\ InitIn /\ InitHa /\ InitCl /\ InitCv /\ InitAdvice
        /\ InitDv /\ InitSlug /\ InitLc /\ InitId /\ InitEx

WeatherBreakers == {"tomorrow-io", "open-meteo"}

NextWeather ==
    \/ Tick(WxTickStep, WxMaxTime)
    \/ \E r \in WReqs, valid \in BOOLEAN, nearest \in {"found", "none", "error"} :
          WxResolve(r, valid, nearest)
    \/ \E r \in WReqs, ok \in BOOLEAN : WxCache(r, ok)
    \/ \E r \in WReqs, key \in {"key", "nokey", "error"}, out \in {"data", "none", "error"},
          raw \in TomorrowShapes : WxTomorrow(r, key, out, raw)
    \/ \E r \in WReqs, out \in {"data", "none", "error"}, raw \in OpenMeteoShapes :
          WxOpenMeteo(r, out, raw)
    \/ \E r \in WReqs, ok \in BOOLEAN : WxSetCache(r, ok)
    \/ \E r \in WReqs, ok \in BOOLEAN : WxRecordHistory(r, ok)
    \/ \E s \in Slugs : TtlEvict(s)

SpecWeather == Init /\ [][NextWeather]_vars

\* one weather request while the providers' breakers are driven through their public operations
GateReqs == {1}

NextGate ==
    \/ Tick(WxTickStep, WxMaxTime)
    \/ \E r \in GateReqs, valid \in BOOLEAN, nearest \in {"found", "none", "error"} :
          WxResolve(r, valid, nearest)
    \/ \E r \in GateReqs, ok \in BOOLEAN : WxCache(r, ok)
    \/ \E r \in GateReqs, key \in {"key", "nokey", "error"}, out \in {"data", "none", "error"},
          raw \in TomorrowShapes : WxTomorrow(r, key, out, raw)
    \/ \E r \in GateReqs, out \in {"data", "none", "error"}, raw \in OpenMeteoShapes :
          WxOpenMeteo(r, out, raw)
    \/ \E r \in GateReqs, ok \in BOOLEAN : WxSetCache(r, ok)
    \/ \E r \in GateReqs, ok \in BOOLEAN : WxRecordHistory(r, ok)
    \/ \E p \in WeatherBreakers : RecordFailure(p)
    \/ \E p \in WeatherBreakers : ProbeIsAllowed(p)

SpecGate == Init /\ [][NextGate]_vars

Next ==
    \/ Tick(TickStep, MaxTime)
    \/ \E p \in Providers : ProbeIsAllowed(p)
    \/ \E p \in Providers : RecordSuccess(p)
    \/ \E p \in Providers : RecordFailure(p)
    \/ \E p \in Providers : Reset(p)
    \/ \E t \in Tasks, p \in Providers : ExecuteStart(t, p)
    \/ \E t \in Tasks, o \in FnOutcomes : ExecuteFinish(t, o)

Spec == Init /\ [][Next]_vars

\* the summary endpoint
NextAi ==
    \/ Tick(AiTickStep, AiMaxTime)
    \/ \E r \in AiReqs, valid \in BOOLEAN, name \in AiNames, cur \in AiReadings,
          tagsOk \in BOOLEAN, ok \in BOOLEAN : AiStart(r, valid, name, cur, tagsOk, ok)
    \/ \E r \in AiReqs, client \in BOOLEAN, out \in {"text", "no_text", "error"} :
          AiGenerate(r, client, out)
    \/ \E r \in AiReqs, ok \in BOOLEAN : AiStore(r, ok)
    \/ \E s \in AiSlugs : AiTtlEvict(s)

SpecAi == Init /\ [][NextAi]_vars

\* check_rate_limit called directly
NextRate ==
    \/ Tick(RlTickStep, RlMaxTime)
    \/ \E c \in RlCalls, ip \in RlIps : RlBegin(c, ip)
    \/ \E c \in RlCalls, ok \in BOOLEAN : RlUpdate(c, ok)
    \/ \E k \in RateKeys : RlTtlEvict(k)

SpecRate == Init /\ [][NextRate]_vars

\* the report endpoints; the reports come from one address, and at most one of the
\* checks of a submit_report call fails
SubmitIp == "1.2.3.4"
SubmitPass == [rlOk |-> TRUE, typeValid |-> TRUE, loc |-> "found", insOk |-> TRUE]
SubmitCases ==
    {SubmitPass, [SubmitPass EXCEPT !.rlOk = FALSE], [SubmitPass EXCEPT !.typeValid = FALSE],
     [SubmitPass EXCEPT !.loc = "none"], [SubmitPass EXCEPT !.insOk = FALSE]}

NextReports ==
    \/ Tick(RpTickStep, RpMaxTime)
    \/ \E ip \in {SubmitIp, "none"}, c \in SubmitCases, severity \in {"mild", "extreme"} :
          SubmitReport(ip, c.rlOk, c.typeValid, severity, c.loc, TRUE, c.insOk)
    \/ \E r \in UpReqs, ip \in RlIps \cup {"none"}, rid \in ReportIds \cup {InvalidId},
          ok \in BOOLEAN : Upvote(r, ip, rid, ok)
    \/ \E i \in ReportIds : ReportTtlEvict(i)
    \/ \E k \in RateKeys : RlTtlEvict(k)

SpecReports == Init /\ [][NextReports]_vars

\* a step of chat request c inside the tool loop
ChatStep(c) ==
    \/ ChatLlmStart(c)
    \/ \E out \in {"tool_use", "end", "deadline", "rate_limit", "api_error", "raised"},
          plan \in ToolPlans : ChatLlmFinish(c, out, plan)
    \/ \E out \in {"returned", "deadline"}, found \in SearchResults,
          lookup \in {"ok", "error"} : ChatTool(c, out, found, lookup)

\* the chat endpoint, with failures reported to its breaker by the other LLM endpoints
NextChat ==
    \/ Tick(ChTickStep, ChMaxTime)
    \/ \E c \in ChatReqs, msg \in {"ok", "empty", "long"}, ip \in {ChatIp, "none"},
          rlOk \in BOOLEAN, key \in BOOLEAN : ChatStart(c, msg, ip, rlOk, key)
    \/ \E c \in ChatReqs : ChatStep(c)
    \/ RecordFailure("anthropic")

SpecChat == Init /\ [][NextChat]_vars

\* the history analysis endpoint, with the weather fetches that record the history
\* and failures reported to the LLM breaker by the other LLM endpoints
HaWriters == {1, 2}

NextAnalyze ==
    \/ Tick(HaTickStep, HaMaxTime)
    \/ \E r \in HaWriters :      \* one fetch after the other
          /\ \A w \in HaWriters : w < r => wreq[w].pc = "done"
          /\ WxResolve(r, TRUE, "found")
    \/ \E r \in HaWriters : WxCache(r, TRUE)
    \/ \E r \in HaWriters, raw \in {[hourly |-> 5, daily |-> 1]} :
          WxTomorrow(r, "key", "data", raw)
    \/ \E r \in HaWriters : WxSetCache(r, TRUE)
    \/ \E r \in HaWriters : WxRecordHistory(r, TRUE)
    \/ \E r \in HaReqs, location \in HaLocations, ip \in {HaIp, "none"}, days \in HaDays,
          env \in {"ok", "rate_error", "locations_error", "history_error", "cache_error"} :
          /\ \A c \in HaReqs : c < r => hareq[c].pc = "done"     \* consecutive calls
          /\ HaStart(r, location, ip, days, env)
    \/ \E r \in HaReqs, client \in BOOLEAN,
          out \in {"text", "empty_text", "no_text", "rate_limit", "api_error", "raised"} :
          HaLlm(r, client, out)
    \/ \E r \in HaReqs, ok \in BOOLEAN : HaStore(r, ok)
    \/ HaTtlEvict
    \/ /\ \A r \in HaReqs : hareq[r].pc = "new"     \* failures of earlier LLM calls
       /\ \A w \in HaWriters : wreq[w].pc = "done"
       /\ RecordFailure("anthropic")

SpecAnalyze == Init /\ [][NextAnalyze]_vars

\* clarification requests, with failures of other LLM calls in between
NextClarify ==
    \/ Tick(TickStep, MaxTime)
    \/ \E r \in ClReqs, ip \in {ClIp, "none"}, type \in ClTypes,
          env \in {"ok", "rate_error", "locations_error"}, client \in BOOLEAN :
          ClStart(r, ip, type, env, client)
    \/ \E r \in ClReqs, out \in {"text", "no_text", "error"}, kinds \in LlmTexts :
          ClFinish(r, out, kinds)
    \/ /\ \A r \in ClReqs : clreq[r].pc = "new"
       /\ RecordFailure("anthropic")

SpecClarify == Init /\ [][NextClarify]_vars

\* reports of every type checked against snapshots of frost, rain, wind, fog and storm
CvCurrents ==
    {[temperature_2m |-> t, weather_code |-> c, precipitation |-> p, wind_speed_10m |-> w] :
        t \in SnapTemps, c \in SnapCodes, p \in SnapPrecips, w \in SnapWinds}

NextCrossValidate ==
    \/ \E report_type \in REPORT_TYPES, cached \in {"row", "none", "error"},
          curr \in CvCurrents : TakeSnapshot(report_type, cached, curr)
    \/ CrossValidate

SpecCrossValidate == Init /\ [][NextCrossValidate]_vars

\* one tool call, with an empty rules cache or one an earlier call has filled
AdviceCaches ==
    {EmptyCache} \cup
    {[k \in RuleKeys |-> IF k \in ks THEN CachedRule(k) ELSE NoRule] :
        ks \in {{RuleKey("activity", "running")}, {RuleKey("category", "sports")}}}

NextAdvice ==
    \/ /\ advice.pc = "new"
       /\ \E category \in Categories, insights \in Insights, hasRule \in BOOLEAN,
             tests \in Tests, categoryRule \in BOOLEAN, cache \in AdviceCaches :
             /\ ~hasRule => tests = <<>>
             /\ GetActivityAdvice("running", category, insights, hasRule, tests,
                                  categoryRule, cache, "ok")
    \/ /\ advice.pc = "new"      \* an unknown activity, a failing call
       /\ \E id \in ActivityIds, insights \in Insights, cache \in AdviceCaches,
             env \in {"ok", "weather_error", "activities_error", "rules_error"} :
             /\ id = "ghost" \/ env # "ok"
             /\ GetActivityAdvice(id, "sports", insights, TRUE, <<"gt">>, TRUE, cache, env)

SpecAdvice == Init /\ [][NextAdvice]_vars

\* two creates and preference updates of one device, at any times
NextDevices ==
    \/ Tick(TickStep, MaxTime)
    \/ \E r \in DvReqs, body_id \in BodyDeviceIds, theme \in BodyThemes,
          env \in {"ok", "index_error"} : DvCreate(r, body_id, theme, env)
    \/ \E r \in DvReqs : DvFindExisting(r)
    \/ \E theme \in {"light", "system"} : DvUpdate("dev-a", theme)

SpecDevices == Init /\ [][NextDevices]_vars

\* slugs of short names and of names around the length cap, generated and regenerated
NextSlug ==
    \/ /\ slugreq.pc = "new"
       /\ \E n \in PadLens, tail \in NameTails, country \in Countries :
             GenerateSlug(Letters(n) \o tail, country)
    \/ GenerateAgain

SpecSlug == Init /\ [][NextSlug]_vars

\* add requests served by several server processes over one store: their store calls
\* interleave
NextLocations ==
    \/ \E r \in LcReqs, name \in GeoNames,
          env \in {"ok", "invalid", "outside", "rate_error", "no_geocode", "duplicate"} :
          LcStart(r, name, env)
    \/ \E r \in LcReqs : LcProbe(r)
    \/ \E r \in LcReqs, storeOk \in BOOLEAN : LcInsert(r, storeOk)

SpecLocations == Init /\ [][NextLocations]_vars

\* calls of two clients behind one proxy to the rate-limited endpoints
NextIdentity ==
    \E client \in Clients, action \in RlActions, form \in {"xff", "real_ip"} :
       RateGate(client, action, form)

SpecIdentity == Init /\ [][NextIdentity]_vars

\* the four endpoints that gate their LLM call on the anthropic breaker, one request
\* each, after one weather fetch has recorded the history the analysis reads and after
\* the failures that earlier LLM calls reported. The summary, clarify and analysis
\* handlers call the store and the LLM synchronously, so they run one after the other;
\* the chat handler awaits its calls and interleaves with them.
GateFetched == wreq[1].pc = "done"
GateCalm ==
    /\ chreq[1].pc = "new" /\ aireq[1].pc = "new"
    /\ clreq[1].pc = "new" /\ hareq[1].pc = "new"

NextLlmGate ==
    \/ Tick(ChTickStep, ChMaxTime)
    \/ WxResolve(1, TRUE, "found")
    \/ WxCache(1, TRUE)
    \/ \E raw \in {[hourly |-> 5, daily |-> 1]} : WxTomorrow(1, "key", "data", raw)
    \/ WxSetCache(1, TRUE)
    \/ WxRecordHistory(1, TRUE)
    \/ GateFetched /\ GateCalm /\ RecordFailure("anthropic")
    \/ GateFetched /\ ChatStart(1, "ok", ChatIp, TRUE, TRUE)
    \/ ChatLlmStart(1)
    \/ \E out \in {"tool_use", "end", "api_error"} :
          ChatLlmFinish(1, out, <<ToolBlock("get_weather", "harare")>>)
    \/ ChatTool(1, "returned", <<>>, "ok")
    \/ GateFetched /\ AiStart(1, TRUE, "Kariba", [temperature |-> 20, weatherCode |-> 0],
                               TRUE, TRUE)
    \/ \E out \in {"text", "error"} : AiGenerate(1, TRUE, out)
    \/ AiStore(1, TRUE)
    \/ aireq[1].pc = "done" /\ ClStart(1, ClIp, "frost", "ok", TRUE)
    \/ \E out \in {"text", "error"} : ClFinish(1, out, <<"digit">>)
    \/ clreq[1].pc = "done" /\ HaStart(1, "harare", HaIp, 7, "ok")
    \/ \E out \in {"text", "api_error"} : HaLlm(1, TRUE, out)
    \/ HaStore(1, TRUE)

SpecLlmGate == Init /\ [][NextLlmGate]_vars

NextExecutor ==
    \/ ExTick
    \/ \E r \in ExReqs, kind \in ExKinds : ExSubmit(r, kind)
    \/ \E r \in ExReqs : ExFinish(r)
    \/ \E r \in ExReqs : ExDeadline(r)

SpecExecutor == Init /\ [][NextExecutor]_vars

\* chat's handling of the request body
NextChatInput ==
    \/ \E len \in ContentLens : ComposeTurn(len)
    \/ ChatBuild

SpecChatInput == Init /\ [][NextChatInput]_vars

\* concurrent writers of the two caches: two weather requests and two summary requests
\* for one location each, at one instant
WriterReqs == {1, 2}
WriterName == "Kariba"
WriterReadings == {r \in AiReadings : r.weatherCode = 0 /\ r.temperature # 25}

NextWriters ==
    \/ \E r \in WriterReqs : WxResolve(r, TRUE, "found")
    \/ \E r \in WriterReqs : WxCache(r, TRUE)
    \/ \E r \in WriterReqs, out \in {"data", "none"}, raw \in TomorrowShapes :
          WxTomorrow(r, "key", out, raw)
    \/ \E r \in WriterReqs, raw \in OpenMeteoShapes : WxOpenMeteo(r, "data", raw)
    \/ \E r \in WriterReqs, ok \in BOOLEAN : WxSetCache(r, ok)
    \/ \E r \in WriterReqs, ok \in BOOLEAN : WxRecordHistory(r, ok)
    \/ \E r \in WriterReqs, cur \in WriterReadings : AiStart(r, TRUE, WriterName, cur, TRUE, TRUE)
    \/ \E r \in WriterReqs, client \in BOOLEAN : AiGenerate(r, client, "text")
    \/ \E r \in WriterReqs, ok \in BOOLEAN : AiStore(r, ok)

SpecWriters == Init /\ [][NextWriters]_vars

\* the writers of the two caches: one weather request and one summary request
TtlReqs == {1}

NextTtl ==
    \/ Tick(AiTickStep, AiMaxTime)
    \/ \E r \in GateReqs, valid \in BOOLEAN, nearest \in {"found", "none", "error"} :
          WxResolve(r, valid, nearest)
    \/ \E r \in GateReqs, ok \in BOOLEAN : WxCache(r, ok)
    \/ \E r \in GateReqs, key \in {"key", "nokey", "error"}, out \in {"data", "none", "error"},
          raw \in TomorrowShapes : WxTomorrow(r, key, out, raw)
    \/ \E r \in GateReqs, out \in {"data", "none", "error"}, raw \in OpenMeteoShapes :
          WxOpenMeteo(r, out, raw)
    \/ \E r \in GateReqs, ok \in BOOLEAN : WxSetCache(r, ok)
    \/ \E r \in GateReqs, ok \in BOOLEAN : WxRecordHistory(r, ok)
    \/ \E s \in Slugs : TtlEvict(s)
    \/ \E r \in TtlReqs, valid \in BOOLEAN, name \in AiNames, cur \in AiReadings,
          tagsOk \in BOOLEAN, ok \in BOOLEAN : AiStart(r, valid, name, cur, tagsOk, ok)
    \/ \E r \in TtlReqs, client \in BOOLEAN, out \in {"text", "no_text", "error"} :
          AiGenerate(r, client, out)
    \/ \E r \in TtlReqs, ok \in BOOLEAN : AiStore(r, ok)
    \/ \E s \in AiSlugs : AiTtlEvict(s)

SpecTtl == Init /\ [][NextTtl]_vars

\* ------------------------------------------------------------------------
\* Properties of the circuit breaker (checked under Spec)
\* ------------------------------------------------------------------------
\* failures of s still inside the window at time t, counted without the model's pruning
InWindowCount(s, cfg, t) ==
    Cardinality({i \in 1..Len(s.failures) : t - s.failures[i] < cfg.window_s})

\* is_allowed as the state table defines it, on the stored state
AllowedAt(s, cfg, t) ==
    \/ s.state \in {"closed", "half_open"}
    \/ s.state = "open" /\ t - s.last_opened_at >= cfg.cooldown_s

\* the step just taken recorded a failure on provider p (directly or through execute)
FailureRecorded(p) == last_op'.provider = p /\ last_op'.recorded = "failure"

\* the step just taken is the gate of execute called by task t on provider p
ExecuteGate(t, p) ==
    /\ tasks[t].pc = "idle"
    /\ last_op'.op \in {"execute", "execute_start"}
    /\ last_op'.task = t
    /\ last_op'.provider = p

\* the step just taken is the completion of the fn awaited by task t
ExecuteDone(t) ==
    /\ tasks[t].pc = "awaiting"
    /\ last_op'.op = "execute"
    /\ last_op'.task = t

\* C1: in state closed, record_failure opens the breaker exactly when the failures
\* inside the window, the new one included, number at least failure_threshold;
\* otherwise the breaker stays closed.
C1_OpensAtThreshold ==
    [][\A p \in Providers :
         (FailureRecorded(p) /\ circuit_states[p].state = "closed") =>
            LET cfg == PROVIDER_CONFIGS[p]
                n == InWindowCount(circuit_states[p], cfg, now) + 1
            IN  /\ circuit_states'[p].state \in {"closed", "open"}
                /\ circuit_states'[p].state = "open" <=> n >= cfg.failure_threshold
                /\ Len(circuit_states'[p].failures) = n]_vars

\* a failure recorded later than the first one in the window opened the breaker
C1_Witness ==
    \E p \in Providers :
        /\ last_op.op = "record_failure" /\ last_op.provider = p
        /\ circuit_states[p].state = "open"
        /\ circuit_states[p].last_opened_at = now
        /\ Len(circuit_states[p].failures) = PROVIDER_CONFIGS[p].failure_threshold
        /\ circuit_states[p].failures[1] < now

\* C2: is_allowed is false exactly while the breaker is open and less than cooldown_s
\* has elapsed since last_opened_at; a breaker becomes half_open only from open, only
\* at or after the cooldown, and only in a step that probes is_allowed.
C2_GateFollowsCooldown ==
    [][\A p \in Providers :
         LET s == circuit_states[p]
             cfg == PROVIDER_CONFIGS[p]
         IN  /\ (last_op'.op = "is_allowed" /\ last_op'.provider = p) =>
                   (last_op'.result = "false" <=>
                       (s.state = "open" /\ now - s.last_opened_at < cfg.cooldown_s))
             /\ (circuit_states'[p].state = "half_open" /\ s.state # "half_open") =>
                   /\ s.state = "open"
                   /\ now - s.last_opened_at >= cfg.cooldown_s
                   /\ last_op'.op \in {"is_allowed", "execute_start"}
                   /\ last_op'.provider = p]_vars

\* a probe at or after the cooldown found the breaker half-open and allowed
C2_Witness ==
    \E p \in Providers :
        /\ last_op.op = "is_allowed" /\ last_op.provider = p /\ last_op.result = "true"
        /\ circuit_states[p].state = "half_open"
        /\ now - circuit_states[p].last_opened_at >= PROVIDER_CONFIGS[p].cooldown_s

\* C3: when the breaker is not allowed, execute raises CircuitOpenError without
\* invoking fn and without recording anything; and a failure that brings the in-window
\* count of a closed breaker to failure_threshold leaves the breaker not allowed.
C3_OpenShortCircuits ==
    [][\A p \in Providers :
         LET s == circuit_states[p]
             cfg == PROVIDER_CONFIGS[p]
         IN  /\ \A t \in Tasks :
                   (ExecuteGate(t, p) /\ ~AllowedAt(s, cfg, now)) =>
                      /\ last_op'.result = "CircuitOpenError"
                      /\ ~last_op'.invoked
                      /\ last_op'.recorded = "none"
                      /\ circuit_states'[p] = s
                      /\ tasks'[t].pc = "idle"
             /\ (FailureRecorded(p) /\ s.state = "closed"
                   /\ InWindowCount(s, cfg, now) + 1 >= cfg.failure_threshold) =>
                      ~AllowedAt(circuit_states'[p], cfg, now)]_vars

\* an execute was refused on a breaker opened by failure_threshold failures
C3_Witness ==
    \E p \in Providers :
        /\ last_op.op = "execute" /\ last_op.provider = p
        /\ last_op.result = "CircuitOpenError"
        /\ circuit_states[p].state = "open"
        /\ Len(circuit_states[p].failures) >= PROVIDER_CONFIGS[p].failure_threshold

\* C4: a half-open breaker is resolved by the next recorded outcome: a success closes
\* it and clears the failure list, a failure re-opens it with last_opened_at set to the
\* time of that failure, so the cooldown starts again.
C4_HalfOpenResolved ==
    [][\A p \in Providers :
         (circuit_states[p].state = "half_open" /\ last_op'.provider = p) =>
            /\ last_op'.recorded = "success" =>
                  /\ circuit_states'[p].state = "closed"
                  /\ circuit_states'[p].failures = <<>>
            /\ last_op'.recorded = "failure" =>
                  /\ circuit_states'[p].state = "open"
                  /\ circuit_states'[p].last_opened_at = now
                  /\ ~AllowedAt(circuit_states'[p], PROVIDER_CONFIGS[p], now)]_vars

\* a failed probe re-opened the breaker although fewer than failure_threshold failures
\* are inside the window
C4_Witness ==
    \E p \in Providers :
        /\ last_op.provider = p /\ last_op.recorded = "failure"
        /\ circuit_states[p].state = "open"
        /\ circuit_states[p].last_opened_at = now
        /\ Len(circuit_states[p].failures) < PROVIDER_CONFIGS[p].failure_threshold

\* C5 as stated: every completed execute on an allowed breaker records exactly one
\* outcome: success if fn returned, failure and TimeoutError on the deadline, failure
\* and the original exception whenever fn raised.
C5_Original ==
    [][\A t \in Tasks :
         ExecuteDone(t) =>
            /\ last_op'.recorded \in {"success", "failure"}
            /\ last_op'.fn = "returned" =>
                  (last_op'.recorded = "success" /\ last_op'.result = "result")
            /\ last_op'.fn = "deadline" =>
                  (last_op'.recorded = "failure" /\ last_op'.result = "TimeoutError")
            /\ last_op'.fn \in {"raised", "raised_circuit_open", "raised_timeout", "raised_base"} =>
                  (last_op'.recorded = "failure" /\ last_op'.result = "original")]_vars

\* C5 amended: success if fn returned; failure and TimeoutError on the deadline or when
\* fn itself raised asyncio.TimeoutError; failure and the original exception for any
\* other Exception except CircuitOpenError; CircuitOpenError and non-Exception
\* BaseExceptions raised by fn propagate with nothing recorded. A recorded failure is
\* the last entry of the failure list, stamped with the current time.
C5_OneOutcomePerCall ==
    [][\A t \in Tasks :
         ExecuteDone(t) =>
            LET p == tasks[t].provider IN
            /\ last_op'.fn = "returned" =>
                  (last_op'.recorded = "success" /\ last_op'.result = "result")
            /\ last_op'.fn \in {"deadline", "raised_timeout"} =>
                  (last_op'.recorded = "failure" /\ last_op'.result = "TimeoutError")
            /\ last_op'.fn = "raised" =>
                  (last_op'.recorded = "failure" /\ last_op'.result = "original")
            /\ last_op'.fn \in {"raised_circuit_open", "raised_base"} =>
                  (last_op'.recorded = "none" /\ last_op'.result = "original"
                     /\ circuit_states'[p] = circuit_states[p])
            /\ last_op'.recorded = "failure" =>
                  /\ circuit_states'[p].failures # <<>>
                  /\ circuit_states'[p].failures[Len(circuit_states'[p].failures)] = now
            /\ last_op'.recorded = "success" =>
                  /\ circuit_states'[p].failures \in {<<>>, circuit_states[p].failures}
                  /\ circuit_states'[p].state = "closed" \/ circuit_states'[p] = circuit_states[p]]_vars

\* an execute hit its deadline: one failure recorded, TimeoutError raised
C5_Witness ==
    /\ last_op.op = "execute" /\ last_op.fn = "deadline"
    /\ last_op.recorded = "failure" /\ last_op.result = "TimeoutError"
    /\ circuit_states[last_op.provider].failures # <<>>

\* ------------------------------------------------------------------------
\* Properties of the weather pipeline (checked under SpecWeather and SpecGate)
\* ------------------------------------------------------------------------
Chain == <<"cache", "tomorrow", "open-meteo", "fallback">>

Rank(step) == CHOOSE i \in 1..Len(Chain) : Chain[i] = step

Last(q) == q[Len(q)]

Range(q) == {q[i] : i \in 1..Len(q)}

\* request r makes the outbound call of provider step in the step just taken
Called(r, step) == step \notin Range(wreq[r].steps) /\ step \in Range(wreq'[r].steps)

\* C6: the steps are tried in the order cache, Tomorrow.io, Open-Meteo, seasonal; a
\* provider step is pending only while no earlier step has produced data, and the
\* response names the step that produced the data.
C6_FallbackOrder ==
    \A r \in WReqs :
        LET q == wreq[r] IN
        /\ \A i, j \in 1..Len(q.steps) : i < j => Rank(q.steps[i]) < Rank(q.steps[j])
        /\ q.pc \in {"tomorrow", "open_meteo"} => q.data = NoData
        /\ q.pc \in {"set_cache", "history"} =>
              /\ q.data.origin = Last(q.steps)
              /\ q.source = Last(q.steps)
              /\ q.source \in {"tomorrow", "open-meteo"}
        /\ (q.pc = "done" /\ q.resp.status = 200) =>
              /\ q.resp.x_cache = "HIT" <=> Last(q.steps) = "cache"
              /\ q.resp.x_cache = "MISS" =>
                    /\ q.resp.provider = Last(q.steps)
                    /\ q.resp.body.origin = Last(q.steps)

\* a request went through all four steps and answered with the seasonal estimate
C6_Witness ==
    \E r \in WReqs :
        /\ wreq[r].pc = "done"
        /\ wreq[r].steps = Chain
        /\ wreq[r].resp.provider = "fallback"

\* C7: a request with valid coordinates ends with status 200 and a weather document,
\* whatever the store and the providers did; a started request is never left without
\* a next step.
C7_NeverHardError ==
    \A r \in WReqs :
        LET q == wreq[r] IN
        /\ (q.pc = "done" /\ q.coords = "valid") =>
              /\ q.resp.status = 200
              /\ q.resp.body # NoData
              /\ q.resp.body.origin \in {"tomorrow", "open-meteo", "fallback"}
        /\ q.pc \in {"new", "cache", "tomorrow", "open_meteo", "set_cache", "history", "done"}
        /\ q.coords = "invalid" => (q.pc = "done" /\ q.resp.status = 400)

\* with no credential and Open-Meteo failing the request still answered 200
C7_Witness ==
    \E r \in WReqs :
        /\ wreq[r].pc = "done" /\ wreq[r].coords = "valid"
        /\ wreq[r].steps = <<"cache", "open-meteo", "fallback">>
        /\ wreq[r].resp.status = 200
        /\ wreq[r].resp.body = _create_fallback_weather

\* C8: a weather provider is called only when its breaker's is_allowed is true.
C8_ProviderGated ==
    [][\A r \in WReqs : \A src \in {"tomorrow", "open-meteo"} :
         Called(r, src) =>
            AllowedAt(circuit_states[BreakerOf(src)], PROVIDER_CONFIGS[BreakerOf(src)], now)]_vars

\* C9: every provider call of the pipeline reports its outcome to the provider's
\* breaker: record_failure when the call produced no data, record_success otherwise.
C9_OutcomeReported ==
    [][\A r \in WReqs : \A src \in {"tomorrow", "open-meteo"} :
         Called(r, src) =>
            LET p == BreakerOf(src)
                produced == wreq'[r].data.origin = src
            IN  circuit_states'[p] =
                   IF produced THEN record_success(circuit_states[p])
                   ELSE record_failure(circuit_states[p], PROVIDER_CONFIGS[p], now)]_vars

\* C10: a cache entry is served only while its expiresAt is later than now; the
\* response is then the entry's data with X-Cache HIT and the entry's provider, and
\* the request made no provider call.
C10_CacheHit ==
    [][\A r \in WReqs :
         (wreq[r].pc = "cache" /\ wreq'[r].resp.x_cache = "HIT") =>
            LET e == weather_cache[wreq[r].slug] IN
            /\ e # NoEntry
            /\ e.expiresAt > now
            /\ wreq'[r].resp.status = 200
            /\ wreq'[r].resp.body = e.data
            /\ wreq'[r].resp.provider = e.provider
            /\ wreq'[r].steps = <<"cache">>
            /\ wreq'[r].pc = "done"
            /\ UNCHANGED <<weather_cache, weather_history, circuit_states>>]_vars

\* a request was answered from an entry that Tomorrow.io data had filled
C10_Witness ==
    \E r \in WReqs :
        /\ wreq[r].pc = "done"
        /\ wreq[r].resp.x_cache = "HIT"
        /\ wreq[r].resp.provider = "tomorrow"
        /\ wreq[r].resp.body.origin = "tomorrow"
        /\ wreq[r].steps = <<"cache">>

\* providers whose data get_weather stores
StoredSources == {"tomorrow", "open-meteo"}

\* C11: the cache upsert and the history append are performed only by a request whose
\* data came from Tomorrow.io or Open-Meteo; a cache hit and a seasonal estimate are
\* answered without any store write, and no cache entry or history record holds
\* synthesised data.
C11_WritesOnlyProviderData ==
    [][
        /\ \A s \in Slugs :
            (weather_cache'[s] # weather_cache[s] /\ weather_cache'[s] # NoEntry) =>
               \E r \in WReqs :
                  /\ wreq[r].pc = "set_cache" /\ wreq[r].slug = s
                  /\ wreq[r].source \in StoredSources
                  /\ wreq[r].data.origin = wreq[r].source
                  /\ weather_cache'[s].data = wreq[r].data
        /\ \A h \in weather_history' \ weather_history :
               \E r \in WReqs :
                  /\ wreq[r].pc = "history" /\ wreq[r].slug = h.locationSlug
                  /\ wreq[r].source \in StoredSources
                  /\ h.data = wreq[r].data
        /\ \A r \in WReqs :
               (/\ wreq[r].pc # "done" /\ wreq'[r].pc = "done"
                /\ \/ wreq'[r].resp.x_cache = "HIT"
                   \/ wreq'[r].resp.provider = "fallback") =>
                  UNCHANGED <<weather_cache, weather_history>>
        /\ \A s \in Slugs : weather_cache'[s].data.origin \in StoredSources \cup {"none"}
        /\ \A h \in weather_history' : h.data.origin \in StoredSources]_vars

\* a request was answered with the seasonal estimate and the store is still empty
C11_Witness ==
    /\ \E r \in WReqs :
          /\ wreq[r].pc = "done"
          /\ wreq[r].resp.provider = "fallback"
          /\ wreq[r].resp.body.origin = "fallback"
    /\ \A s \in Slugs : weather_cache[s] = NoEntry
    /\ weather_history = {}

\* C12: every weather response, from the cache, Tomorrow.io, Open-Meteo or the
\* seasonal estimate, has hourly arrays of at most 24 entries and daily arrays of at
\* most 7 entries.
C12_ArraysCapped ==
    \A r \in WReqs :
        (wreq[r].pc = "done" /\ wreq[r].resp.status = 200) =>
            /\ wreq[r].resp.body.hourly <= HOURLY_CAP
            /\ wreq[r].resp.body.daily <= DAILY_CAP

\* ------------------------------------------------------------------------
\* Properties of the cache writers (checked under SpecTtl)
\* ------------------------------------------------------------------------
\* C13: every cache write sets expiresAt later than the write time: a weather cache
\* entry gets fetchedAt = now and expiresAt = fetchedAt + 900 s; a summary gets
\* generatedAt = now and expiresAt = generatedAt + 1800 s for a tier-1 slug, + 3600 s
\* for another slug whose tags include a tier-2 tag, + 7200 s otherwise.
C13_TtlExact ==
    [][
        /\ \A s \in Slugs :
              (weather_cache'[s] # weather_cache[s] /\ weather_cache'[s] # NoEntry) =>
                 /\ weather_cache'[s].fetchedAt = now
                 /\ weather_cache'[s].expiresAt > now
                 /\ weather_cache'[s].expiresAt - weather_cache'[s].fetchedAt = 900
        /\ \A s \in AiSlugs :
              (ai_summaries'[s] # ai_summaries[s] /\ ai_summaries'[s] # NoSummary) =>
                 \E r \in AiReqs :
                    /\ aireq[r].pc = "store" /\ aireq[r].slug = s
                    /\ ai_summaries'[s].generatedAt = now
                    /\ ai_summaries'[s].expiresAt > now
                    /\ ai_summaries'[s].expiresAt - ai_summaries'[s].generatedAt =
                          IF s \in {"harare", "bulawayo", "mutare", "gweru", "masvingo", "kwekwe",
                                    "kadoma", "marondera", "chinhoyi", "victoria-falls"}
                          THEN 1800
                          ELSE IF \E t \in aireq[r].tags :
                                     t \in {"farming", "mining", "education", "border"}
                          THEN 3600
                          ELSE 7200
    ]_vars

\* after the clock advanced, a weather entry and the summary of a farming town were written
C13_Witness ==
    /\ \E s \in Slugs :
          /\ weather_cache[s] # NoEntry
          /\ weather_cache[s].fetchedAt > 0
          /\ weather_cache[s].expiresAt = weather_cache[s].fetchedAt + 900
    /\ ai_summaries["chiredzi"] # NoSummary
    /\ ai_summaries["chiredzi"].generatedAt > 0
    /\ ai_summaries["chiredzi"].expiresAt = ai_summaries["chiredzi"].generatedAt + 3600

\* ------------------------------------------------------------------------
\* Properties of the report endpoints (checked under SpecReports)
\* ------------------------------------------------------------------------
\* answered upvote requests of identity h on report i that returned upvoted: true
Upvoters(i) ==
    {upreq[q].identity : q \in {u \in UpReqs : /\ upreq[u].pc = "done" /\ upreq[u].status = 200
                                              /\ upreq[u].report = i /\ upreq[u].upvoted}}

\* C14: whatever the order of the upvote requests, an identity is listed at most once
\* in a report's upvotedBy and the counter rises by one per listed identity; on an
\* existing report the first request of an identity returns upvoted: true and every
\* later one returns upvoted: false with status 200.
C14_UpvoteOnce ==
    [][
        /\ \A r \in UpReqs :
              (upreq[r].pc = "new" /\ upreq'[r].pc = "done" /\ upreq'[r].status = 200) =>
                 LET i == upreq'[r].report
                     h == upreq'[r].identity
                 IN  /\ weather_reports[i] # NoReport =>
                           (upreq'[r].upvoted <=> h \notin Upvoters(i))
                     /\ weather_reports[i] = NoReport => ~upreq'[r].upvoted
                     /\ weather_reports'[i].upvotes - weather_reports[i].upvotes =
                           IF upreq'[r].upvoted THEN 1 ELSE 0
        /\ \A i \in ReportIds :
              LET d == weather_reports'[i] IN
              d # NoReport =>
                 /\ \A m, n \in 1..Len(d.upvotedBy) : m # n => d.upvotedBy[m] # d.upvotedBy[n]
                 /\ d.upvotes = Cardinality({d.upvotedBy[m] : m \in 1..Len(d.upvotedBy)})
                 /\ d.upvotes >= weather_reports[i].upvotes
    ]_vars

\* two identities upvoted a report and a repeated request was answered upvoted: false
C14_Witness ==
    \E i \in ReportIds :
        /\ Len(weather_reports[i].upvotedBy) = 2
        /\ weather_reports[i].upvotes = 2
        /\ \E r \in UpReqs :
              /\ upreq[r].pc = "done" /\ upreq[r].status = 200 /\ upreq[r].report = i
              /\ ~upreq[r].upvoted
              /\ upreq[r].identity \in Upvoters(i)

\* ------------------------------------------------------------------------
\* Properties of the rate limiter (checked under SpecRate)
\* ------------------------------------------------------------------------
\* the calls already answered from the counter document with _id id
AnsweredFrom(id) == {d \in RlCalls : rlreq[d].pc = "done" /\ rlreq[d].res.id = id}

\* C15: the calls for one identity and action that fall into one window (one counter
\* document) are allowed exactly while fewer than max calls were answered before them,
\* in whatever order the concurrent calls reach the store: the call that brings the
\* count to max is allowed, the next one and all later ones are denied.
C15_FirstMaxAllowed ==
    [][\A c \in RlCalls :
         (rlreq[c].pc = "update" /\ rlreq'[c].pc = "done") =>
            LET res == rlreq'[c].res
                before == AnsweredFrom(res.id)
            IN  /\ \A d \in before : rlreq[d].key = rlreq[c].key
                /\ res.count = Cardinality(before) + 1
                /\ res.allowed <=> Cardinality(before) < RateMax
                /\ res.count = RateMax => res.allowed
                /\ res.count = RateMax + 1 => ~res.allowed]_vars

\* in one window the call that reached max was allowed and the next one was denied
C15_Witness ==
    \E c, d \in RlCalls :
        /\ rlreq[c].pc = "done" /\ rlreq[d].pc = "done"
        /\ rlreq[c].res.id = rlreq[d].res.id
        /\ rlreq[c].res.count = RateMax /\ rlreq[c].res.allowed
        /\ rlreq[d].res.count = RateMax + 1 /\ ~rlreq[d].res.allowed

\* C16: a check made once the counter's expiresAt has passed begins a new window: it
\* is allowed, its count is 1 and expiresAt is set anew from the call's own clock
\* reading plus the window; a check inside a window leaves expiresAt as it was.
C16_NewWindowAfterExpiry ==
    [][\A c \in RlCalls :
         (rlreq[c].pc = "update" /\ rlreq'[c].pc = "done") =>
            LET old == rate_limits[rlreq[c].key]
                res == rlreq'[c].res
            IN  /\ (old # NoRate /\ old.expiresAt <= now) =>
                      /\ res.allowed
                      /\ res.count = 1
                      /\ res.expiresAt = rlreq[c].expires
                      /\ res.expiresAt > now
                /\ (old # NoRate /\ old.expiresAt > now) =>
                      res.expiresAt = old.expiresAt]_vars

\* ------------------------------------------------------------------------
\* Properties of the chat tool loop (checked under SpecChat)
\* ------------------------------------------------------------------------
\* the longest list of tool_use blocks an LLM response carries in the model
MaxBlocks == 2

\* steps a request can still take: it falls with every step of the loop
StepsLeft(q) ==
    LET perIteration == MaxBlocks + 2
        left == (MAX_TOOL_ITERATIONS - q.iter) * perIteration
    IN  CASE q.pc = "llm" -> left
          [] q.pc = "awaiting_llm" -> left + perIteration - 1
          [] q.pc = "tools" -> left + Len(q.blocks) - Len(q.tool_results)
          [] q.pc = "done" -> -1
          [] OTHER -> (MAX_TOOL_ITERATIONS + 1) * perIteration

IsPrefix(p, q) == Len(p) <= Len(q) /\ \A i \in 1..Len(p) : p[i] = q[i]

\* C17: a chat request makes at most 5 LLM calls and always ends with a response: a
\* request inside the loop is at a point that has a next step (a tool step needs a
\* block that is still to run, the other steps need nothing) and every step brings it
\* closer to its end; when the fifth LLM response still asks for tools, the request
\* ends after those tools with the "too hard" message and the references collected so
\* far (at most 5 of them).
C17_BoundedLoop ==
    [][\A c \in ChatReqs :
            LET q == chreq[c] IN
            chreq'[c] # q =>
               /\ chreq'[c].iter <= 5
               /\ chreq'[c].pc \in {"llm", "awaiting_llm", "tools", "done"}
               /\ chreq'[c].pc = "tools" => Len(chreq'[c].tool_results) < Len(chreq'[c].blocks)
               /\ chreq'[c].pc = "done" => chreq'[c].resp.status \in {200, 400, 429, 500, 503}
               /\ StepsLeft(chreq'[c]) < StepsLeft(q)
               /\ StepsLeft(chreq'[c]) >= -1
               /\ (q.pc = "llm" /\ chreq'[c].pc = "awaiting_llm") => chreq'[c].iter = q.iter + 1
               /\ chreq'[c].pc # "awaiting_llm" => chreq'[c].iter = q.iter
               /\ (/\ q.pc = "tools" /\ q.iter = 5 /\ Len(q.tool_results) + 1 = Len(q.blocks)
                   /\ chreq'[c].resp.status # 500) =>
                     /\ chreq'[c].pc = "done"
                     /\ chreq'[c].resp.status = 200
                     /\ chreq'[c].resp.kind = "too_hard"
                     /\ ~chreq'[c].resp.error
                     /\ Len(chreq'[c].resp.references) <= 5
                     /\ IsPrefix(Take(q.references, 5), chreq'[c].resp.references)
               /\ chreq'[c].resp.kind = "too_hard" => q.iter = 5]_vars

\* the fifth LLM response asked for tools and the request ended with "too hard" and
\* the references it had collected
C17_Witness ==
    \E c \in ChatReqs :
        /\ chreq[c].pc = "done"
        /\ chreq[c].iter = 5
        /\ chreq[c].resp.kind = "too_hard"
        /\ Len(chreq[c].resp.references) = 5

\* C18: inside one chat request the order is LLM call, then every tool call that
\* response asked for, then the next LLM call: an LLM call after the first starts only
\* when each block of the previous response has its tool result (a value or the
\* timed-out error object, in the order of the blocks), those results are the ones in
\* the messages of that call, and no tool runs while an LLM call is awaited.
C18_StrictSequence ==
    [][\A c \in ChatReqs :
            LET q == chreq[c]
                n == chreq'[c]
            IN  /\ (q.pc = "llm" /\ n.pc = "awaiting_llm" /\ q.iter >= 1) =>
                      /\ Len(q.messages) = Len(q.blocks)
                      /\ \A i \in 1..Len(q.messages) :
                            /\ q.messages[i].tool_use_id = i
                            /\ q.messages[i].content \in {"value", "timed_out"}
                      /\ n.messages = q.messages
                /\ (q.pc = "tools" /\ n # q) =>
                      /\ n.pc \in {"tools", "llm", "done"}
                      /\ n.iter = q.iter
                      /\ n.pc = "tools" =>
                            /\ Len(n.tool_results) = Len(q.tool_results) + 1
                            /\ Len(n.tool_results) < Len(q.blocks)
                            /\ n.blocks = q.blocks
                      /\ n.pc = "llm" =>
                            /\ Len(n.tool_results) = Len(q.blocks)
                            /\ n.messages = n.tool_results
                            /\ SubSeq(n.tool_results, 1, Len(q.tool_results)) = q.tool_results
                            /\ n.blocks = q.blocks
                /\ (q.pc = "awaiting_llm" /\ n # q) =>
                      /\ n.pc \in {"tools", "done"}
                      /\ n.pc = "tools" => n.tool_results = <<>> /\ n.blocks # <<>>
                /\ (n.pc = "llm" /\ q.pc # "llm") => q.pc \in {"new", "tools"}]_vars

\* the second LLM call of a request is awaited with the two results of the first
\* response's tool calls in its messages, one of them a timed-out error
C18_Witness ==
    \E c \in ChatReqs :
        /\ chreq[c].pc = "awaiting_llm"
        /\ chreq[c].iter = 2
        /\ Len(chreq[c].messages) = 2
        /\ chreq[c].messages[1].content = "timed_out"
        /\ chreq[c].messages[2].content = "value"

\* C19: whenever the deadline fires in the chat loop, on the LLM call or on a tool
\* call, the LLM breaker records a failure; after a tool deadline the tool result is
\* the timed-out error object and the request goes on towards its next LLM call.
C19_DeadlineRecordsFailure ==
    [][\A c \in ChatReqs :
            LET q == chreq[c]
                n == chreq'[c]
                cfg == PROVIDER_CONFIGS["anthropic"]
                fired == /\ n # q
                         /\ last_op'.op \in {"chat_llm", "chat_tool"}
                         /\ last_op'.fn = "deadline"
            IN  fired =>
                  /\ circuit_states'["anthropic"] =
                        record_failure(circuit_states["anthropic"], cfg, now)
                  /\ last_op'.op = "chat_tool" =>
                        /\ last_op'.result = "timed_out"
                        /\ n.pc \in {"tools", "llm"} =>
                              n.tool_results[Len(n.tool_results)].content = "timed_out"
                        /\ n.resp.status # 500 => n.pc \in {"tools", "llm"} \/ n.resp.kind = "too_hard"]_vars

\* C20: the references of a chat answer hold each slug once and at most 5 entries, and
\* a slug that a search_locations or list_locations_by_tag result of the request has
\* listed is typed "location" in them, whether or not get_weather named it too.
C20_LocationPreferred ==
    \A c \in ChatReqs :
        LET refs == chreq[c].resp.references IN
        chreq[c].pc = "done" =>
            /\ Len(refs) <= 5
            /\ \A i, j \in 1..Len(refs) : refs[i].slug = refs[j].slug => i = j
            /\ \A i \in 1..Len(refs) :
                  refs[i].slug \in chreq[c].located => refs[i].type = "location"

\* ------------------------------------------------------------------------
\* Properties of the chat input (checked under SpecChatInput)
\* ------------------------------------------------------------------------
\* the n most recent turns of a history that lists the oldest turn first
MostRecent(history, n) ==
    IF Len(history) <= n THEN history
    ELSE SubSeq(history, Len(history) - n + 1, Len(history))

\* C21: when the history of a chat request has more than 10 turns, the messages for
\* the LLM are its 10 most recent turns in their original order, each content cut to
\* 2000 characters, followed by the new user message.
C21_RecentHistory ==
    LET h == chat_input.history
        recent == MostRecent(h, 10)
    IN  (chat_input.pc = "built" /\ Len(h) > 10) =>
            /\ Len(chat_input.messages) = 11
            /\ \A i \in 1..10 :
                  /\ chat_input.messages[i].role = recent[i].role
                  /\ chat_input.messages[i].content.text = recent[i].content.text
                  /\ chat_input.messages[i].content.len =
                        (IF recent[i].content.len > 2000 THEN 2000
                         ELSE recent[i].content.len)
            /\ chat_input.messages[11] = [role |-> "user", content |-> NewMessage]

\* ------------------------------------------------------------------------
\* Error handling of the chat loop (checked under SpecChat)
\* ------------------------------------------------------------------------
\* C22: once a chat request is inside the tool loop (its input was valid and the rate
\* limiter let it pass), it ends with HTTP 429 only when the LLM call failed with a
\* rate-limit error; an open breaker, an LLM deadline and any other LLM API error end
\* it with HTTP 200 and an apology text flagged error, never with a 5xx.
C22_SoftLlmErrors ==
    [][\A c \in ChatReqs :
            LET q == chreq[c]
                n == chreq'[c]
                soft == /\ n.resp.status = 200
                        /\ n.resp.error
                        /\ n.resp.references = <<>>
            IN  (q.pc \in {"llm", "awaiting_llm", "tools"} /\ n.pc = "done") =>
                  /\ n.resp.status = 429 <=>
                        (last_op'.op = "chat_llm" /\ last_op'.fn = "rate_limit")
                  /\ (q.pc = "llm" /\ ~last_op'.invoked) =>
                        soft /\ n.resp.kind = "unavailable"
                  /\ (q.pc = "awaiting_llm" /\ last_op'.fn = "deadline") =>
                        soft /\ n.resp.kind = "too_slow"
                  /\ (q.pc = "awaiting_llm" /\ last_op'.fn = "api_error") =>
                        soft /\ n.resp.kind = "trouble"
                  /\ n.resp.error => n.resp.status = 200]_vars

\* the breaker opened while a request was in its loop, and the request's next pass
\* ended with the apology text
C22_Witness ==
    \E c \in ChatReqs :
        /\ chreq[c].pc = "done"
        /\ chreq[c].iter >= 1
        /\ chreq[c].resp.kind = "unavailable"
        /\ chreq[c].resp.status = 200
        /\ chreq[c].resp.error
        /\ circuit_states["anthropic"].state = "open"

\* ------------------------------------------------------------------------
\* Properties of the summary endpoint (checked under SpecAi)
\* ------------------------------------------------------------------------
\* C23: POST /ai answers from the cache (the stored insight, cached: true, no LLM call,
\* no cache write) exactly when the slug has an unexpired summary whose temperature is
\* within 5 degrees of the current one (5 included) and whose weather code equals the
\* current one; every other valid request goes on to generate a summary, stores it and
\* answers with cached: false.
C23_CacheHitUnlessStale ==
    [][\A r \in AiReqs :
            LET q == aireq[r]
                n == aireq'[r]
                doc == ai_summaries[n.slug]
                fresh == /\ doc # NoSummary
                         /\ doc.expiresAt > now
                         /\ n.temperature - doc.temperature <= 5
                         /\ doc.temperature - n.temperature <= 5
                         /\ n.weatherCode = doc.weatherCode
            IN  /\ (q.pc = "new" /\ n.pc # "new" /\ n.resp.status \notin {400, 500}) =>
                      /\ n.slug \in AiSlugs
                      /\ fresh <=> (n.pc = "done" /\ n.resp.cached)
                      /\ fresh =>
                            /\ n.resp.status = 200
                            /\ n.resp.insight = doc.insight
                            /\ UNCHANGED <<ai_summaries, circuit_states>>
                      /\ ~fresh => n.pc = "generate"
                /\ (q.pc = "generate" /\ n # q) => n.pc = "store"
                /\ (q.pc = "store" /\ n.pc = "done" /\ n.resp.status = 200) =>
                      /\ ~n.resp.cached
                      /\ n.resp.insight.req = r
                      /\ ai_summaries'[q.slug].insight = n.resp.insight
                      /\ ai_summaries'[q.slug].temperature = q.temperature
                      /\ ai_summaries'[q.slug].weatherCode = q.weatherCode]_vars

\* a request whose temperature is exactly 5 degrees from the stored one was answered
\* with the insight another request had generated
C23_Witness ==
    \E r \in AiReqs :
        /\ aireq[r].pc = "done"
        /\ aireq[r].resp.cached
        /\ aireq[r].resp.insight.req # r
        /\ aireq[r].slug \in AiSlugs
        /\ aireq[r].temperature - ai_summaries[aireq[r].slug].temperature \in {5, -5}

\* C25: POST /ai never fails a valid request on an environmental failure: without an
\* LLM client, with the breaker open or after a failed LLM call the insight is the
\* templated fallback, and every valid request, also one whose cache read or cache
\* write failed, is answered with HTTP 200 and an insight.
C25_SummaryNeverFails ==
    [][\A r \in AiReqs :
            LET q == aireq[r]
                n == aireq'[r]
            IN  /\ (q.pc = "generate" /\ n # q) =>
                      /\ n.pc = "store"
                      /\ (~last_op'.invoked \/ last_op'.recorded = "failure") =>
                            n.insight.kind = "template"
                /\ (q.pc # "done" /\ n.pc = "done" /\ n.resp.status # 400) =>
                      /\ n.resp.status = 200
                      /\ n.resp.insight # NoInsight]_vars

KeyNow(location, days) ==
    cache_key(location, days, data_hash(HistoryRows(location, days, now)))

\* the stored analyses that can answer a request with this key at the present instant
Stored(key) ==
    {d \in history_analysis :
        d.cacheKey = key /\ d.expiresAt > now /\ d.analysis.kind # "empty"}

C27_StatsAlways ==
    [][\A r \in HaReqs, client \in BOOLEAN,
          out \in {"text", "empty_text", "no_text", "rate_limit", "api_error"} :
            LET q == hareq[r]
                n == hareq'[r]
                usable == /\ client
                          /\ is_allowed(circuit_states["anthropic"],
                                        PROVIDER_CONFIGS["anthropic"], now)
                          /\ out \in {"text", "empty_text", "no_text"}
            IN  HaLlm(r, client, out) =>
                  /\ q.stats.points >= 1
                  /\ usable => (n.pc = "store" /\ n.stats = q.stats)
                  /\ ~usable =>
                        /\ n.pc = "done"
                        /\ n.resp.status = 200
                        /\ n.resp.error
                        /\ n.resp.stats = q.stats
                        /\ n.resp.analysis.kind \in {"recovering", "unavailable"}]_vars

\* the number of lines of an LLM text that start with a digit
DigitLed(kinds) == Cardinality({i \in DOMAIN kinds : kinds[i] = "digit"})

\* C28: clarify returns the report type's fallback questions whenever the LLM is
\* unavailable, its breaker is open, the call errors or fewer than two questions are
\* parsed from the text; otherwise it returns the first two parsed questions.
C28_ClarifyQuestions ==
    [][
      \A r \in ClReqs :
         /\ \A ip \in {ClIp, "none"}, type \in ClTypes, client \in BOOLEAN :
               (/\ ClStart(r, ip, type, "ok", client)
                /\ clreq'[r].resp.status \notin {400, 429}
                /\ ~client \/ ~is_allowed(circuit_states["anthropic"],
                                          PROVIDER_CONFIGS["anthropic"], now)) =>
                  /\ clreq'[r].pc = "done"
                  /\ clreq'[r].resp = [status |-> 200, questions |-> _fallback_questions(type)]
         /\ \A out \in {"text", "no_text", "error"}, kinds \in LlmTexts :
               ClFinish(r, out, kinds) =>
                  LET type == clreq[r].reportType
                      parsed == ParseQuestions(kinds, 1)
                  IN  /\ clreq'[r].pc = "done"
                      /\ clreq'[r].resp.status = 200
                      /\ clreq'[r].resp.questions =
                            IF out # "text" \/ DigitLed(kinds) < 2
                            THEN _fallback_questions(type)
                            ELSE <<parsed[1], parsed[2]>>
    ]_vars

\* C29: a frost report is verified exactly when the snapshot's temperature is at most
\* 3 degrees, zero and negative temperatures included, and is unverified when the
\* temperature is above 3 degrees or there is no snapshot.
C29_FrostVerified ==
    (cvreq.pc = "done" /\ cvreq.reportType = "frost") =>
       /\ ~cvreq.snapshot.present => ~cvreq.verified
       /\ (cvreq.snapshot.present /\ cvreq.snapshot.temperature # Absent) =>
             (cvreq.verified <=> cvreq.snapshot.temperature[1] <= 3)

\* a condition is satisfied: its field is present in the insights and compares as the
\* operator says (gt and lt strictly, gte and lte inclusively, eq by equality)
Satisfied(cond, insights) ==
    /\ insights[cond.field] # None
    /\ \/ cond.operator = "gt" /\ insights[cond.field] > cond.value
       \/ cond.operator = "gte" /\ insights[cond.field] >= cond.value
       \/ cond.operator = "lt" /\ insights[cond.field] < cond.value
       \/ cond.operator = "lte" /\ insights[cond.field] <= cond.value
       \/ cond.operator = "eq" /\ insights[cond.field] = cond.value

\* the rule that rates the activity of the tool call: activity:{id}, else
\* category:{category}, else none
RuleUsed ==
    LET ka == RuleKey("activity", advice.activity.id)
        kc == RuleKey("category", Category(advice.activity))
    IN  IF advice.rules_cache[ka] # NoRule THEN advice.rules_cache[ka]
        ELSE advice.rules_cache[kc]

\* C30: an activity is rated by the rule activity:{id} if present, else by
\* category:{category}, else as generically good; within the rule the first condition
\* in declared order whose field is present and whose comparison holds gives the
\* rating, and when there is none the rule's fallback does (for an activity found in
\* the activities collection).
C30_RuleEvaluation ==
    (/\ advice.pc = "done" /\ advice.kind = "ratings"
     /\ advice.activity = ActivityDoc(advice.activity.category)) =>
       LET rule == RuleUsed
           hits == {i \in DOMAIN rule.conditions : Satisfied(rule.conditions[i], advice.insights)}
           first == CHOOSE i \in hits : \A j \in hits : i <= j
           rating == advice.ratings[1]
       IN  /\ Len(advice.ratings) = 1
           /\ rating.activity = "Running"
           /\ rule = NoRule => rating.level = "good" /\ rating.label = NoLabel
           /\ (rule # NoRule /\ hits # {}) =>
                 /\ rating.level = rule.conditions[first].level
                 /\ rating.label = rule.conditions[first].label
           /\ (rule # NoRule /\ hits = {}) =>
                 /\ rating.level = rule.fallback.level
                 /\ rating.label = rule.fallback.label

\* the activity's own rule rated the activity by its second condition, the first one's field
\* being missing, on a value equal to the threshold of an inclusive comparison
C30_Witness ==
    /\ advice.pc = "done" /\ advice.kind = "ratings"
    /\ advice.rules_cache[RuleKey("activity", "running")] # NoRule
    /\ RuleUsed.key = RuleKey("activity", "running")
    /\ Len(RuleUsed.conditions) = 2
    /\ advice.insights["heatStressIndex"] = None
    /\ RuleUsed.conditions[2].operator = "gte"
    /\ advice.insights["windSpeed"] = RuleUsed.conditions[2].value
    /\ advice.ratings[1].label = [rule |-> RuleKey("activity", "running"), n |-> 2]

\* C31: a create whose deviceId is already stored, whether it comes after or together
\* with another create, stores nothing and answers with the stored profile; there is at
\* most one profile per deviceId.
C31_CreateIdempotent ==
    [][
      /\ \A d1, d2 \in device_profiles' : d1.deviceId = d2.deviceId => d1 = d2
      /\ \A r \in DvReqs :
            /\ \A theme \in VALID_THEMES :
                  (DvCreate(r, "dev-a", theme, "ok") /\ FindDevice(device_profiles, "dev-a") # {}) =>
                     /\ device_profiles' = device_profiles
                     /\ dvreq'[r].pc = "duplicate"
            /\ DvFindExisting(r) =>
                  /\ device_profiles' = device_profiles
                  /\ dvreq'[r].pc = "done"
                  /\ dvreq'[r].status = 201
                  /\ dvreq'[r].profile \in FindDevice(device_profiles, dvreq[r].deviceId)
    ]_vars

\* both creates named the same device with different themes; the second one was
\* answered with the profile the first one stored
C31_Witness ==
    /\ \A r \in DvReqs : dvreq[r].pc = "done" /\ dvreq[r].deviceId = "dev-a"
    /\ dvreq[1].theme = "dark" /\ dvreq[2].theme = "light"
    /\ dvreq[1].profile = dvreq[2].profile
    /\ dvreq[2].profile.preferences.theme = "dark"
    /\ dvreq[2].profile \in device_profiles

\* C32: generating a slug from a generated slug gives the same slug for ZW, and for
\* another country the slug with the country suffix appended once more (within the
\* length cap).
C32_SlugIdempotent ==
    slugreq.pc = "done" =>
       IF slugreq.country = "" \/ Upper(slugreq.country) = "ZW"
       THEN slugreq.again = slugreq.slug
       ELSE slugreq.again =
               Take(slugreq.slug \o <<"-">> \o LowerCountry(slugreq.country), SLUG_MAX)

\* C33: no two location documents share a slug, whatever the interleaving of the add
\* requests that generate the same base slug.
C33_UniqueSlugs ==
    \A d1, d2 \in locations : d1.slug = d2.slug => d1 = d2

\* C34: every rate-limited endpoint counts a call under the identity get_client_ip
\* resolves, so two clients behind the same proxy address whose x-forwarded-for values
\* differ are never counted under the same key.
C34_IdentityKeys ==
    /\ \A x \in idlog :
          x.key = RateKey(x.action, get_client_ip(ProxiedRequest(x.client, x.form)))
    /\ \A x, y \in idlog :
          (/\ x.client # y.client /\ x.action = y.action
           /\ x.form = "xff" /\ y.form = "xff") => x.key # y.key

C36_WorkerReleased ==
    /\ \A r \in ExReqs :
          exreq[r].result = "timeout" => r \notin executor.running
    /\ \A r \in ExReqs, j \in executor.running :
          (\E i \in 1..Len(executor.queue) : executor.queue[i] = r) =>
             exreq[j].pc = "waiting"

\* the step just taken passed the breaker gate of a handler
ChatGate(c) == chreq[c].pc = "llm" /\ chreq'[c].pc # "llm"
SummaryGate(r) == aireq[r].pc = "generate" /\ aireq'[r].pc # "generate"
ClarifyGate(r) == clreq[r].pc = "new" /\ clreq'[r].pc # "new"
AnalyzeGate(r) == hareq[r].pc = "llm" /\ hareq'[r].pc # "llm"

\* the step just taken issued an LLM call
LlmIssued ==
    \/ \E c \in ChatReqs : ChatGate(c) /\ chreq'[c].pc = "awaiting_llm"
    \/ \E r \in AiReqs : SummaryGate(r) /\ last_op'.invoked
    \/ \E r \in ClReqs : ClarifyGate(r) /\ clreq'[r].pc = "llm"
    \/ \E r \in HaReqs :
          /\ AnalyzeGate(r)
          /\ \/ hareq'[r].pc = "store"
             \/ hareq'[r].resp.status \in {429, 500}
             \/ hareq'[r].resp.analysis.kind = "unavailable"

C38_UpvotesCounted ==
    \A i \in ReportIds :
       weather_reports[i] # NoReport =>
          weather_reports[i].upvotes = Len(weather_reports[i].upvotedBy)

\* a report with one upvote whose voter asked again and was refused
C38_Witness ==
    \E i \in ReportIds, r \in UpReqs :
       /\ weather_reports[i] # NoReport
       /\ weather_reports[i].upvotes = 1
       /\ weather_reports[i].upvotedBy = <<upreq[r].identity>>
       /\ upreq[r].pc = "done" /\ upreq[r].status = 200 /\ upreq[r].report = i
       /\ ~upreq[r].upvoted

\* C39: a provider-sourced fetch that reaches its side effects goes on to the history
\* append whatever the cache upsert did; a history write that succeeds adds exactly one
\* record, which holds the fetch's slug and data, and no step changes or removes a
\* record that is stored.
C39_BothSideEffects ==
    [][
        /\ \A r \in WReqs :
              (wreq[r].pc = "set_cache" /\ wreq'[r] # wreq[r]) => wreq'[r].pc = "history"
        /\ \A r \in WReqs :
              (wreq[r].pc = "history" /\ wreq'[r].pc = "done") =>
                 \/ weather_history' = weather_history
                 \/ /\ Cardinality(weather_history' \ weather_history) = 1
                    /\ \A h \in weather_history' \ weather_history :
                          /\ h.locationSlug = wreq[r].slug
                          /\ h.data = wreq[r].data
                          /\ h.recordedAt = now
        /\ weather_history \subseteq weather_history'
    ]_vars

\* the step just taken recorded a success on provider p (directly or through execute)
SuccessRecorded(p) == last_op'.provider = p /\ last_op'.recorded = "success"

\* C40: a recorded success changes the breaker only in half-open: in closed and in
\* open the state, the failure list and the opened-at time stay as they were, so the
\* failures counted towards the threshold are the same before and after the success.
C40_SuccessFrame ==
    [][
       \A p \in Providers :
          (SuccessRecorded(p) /\ circuit_states[p].state # "half_open") =>
             /\ circuit_states'[p].state = circuit_states[p].state
             /\ circuit_states'[p].failures = circuit_states[p].failures
             /\ circuit_states'[p].last_opened_at = circuit_states[p].last_opened_at
             /\ InWindowCount(circuit_states'[p], PROVIDER_CONFIGS[p], now) =
                   InWindowCount(circuit_states[p], PROVIDER_CONFIGS[p], now)
      ]_vars

\* a success was just recorded on a closed breaker that keeps all its failures, one
\* short of the threshold
C40_Witness ==
    \E p \in Providers :
       /\ last_op.provider = p /\ last_op.recorded = "success"
       /\ circuit_states[p].state = "closed"
       /\ Len(circuit_states[p].failures) = PROVIDER_CONFIGS[p].failure_threshold - 1

=============================================================================
